---- MODULE Spec2Model ----
(***************************************************************************)
(* Karateway gateway: the request-handling data plane (router, whitelist,  *)
(* health gate, Redis rate limiters) and the configuration / health        *)
(* runtime that feeds it.                                                  *)
(***************************************************************************)
EXTENDS Integers, Sequences, FiniteSets, Bags, TLC

VARIABLES
    store,           \* the relational store: the four configuration tables
    config,          \* ConfigLoader.config: the ArcSwap<GatewayConfig> cell
    published,       \* history of the values stored into config (ghost)
    loader,          \* frame of load_config / start_reload_watcher
    service_health,  \* HealthChecker.service_health (DashMap)
    prober,          \* frame of the health check background task
    now,             \* wall clock, unix seconds (relative to the model's epoch)
    kv,              \* the Redis keyspace used by the rate limiter
    req,             \* one frame per connection task running request_filter
    lim,             \* one frame per running check_rate_limit* call
    rate_limiter,    \* KaratewayProxy.rate_limiter is Some (TRUE) or None (FALSE)
    audit,           \* the audit channel (records sent by AuditLogger::log)
    writer,          \* frame of audit_log_worker, and the audit_logs table
    meta,            \* frame of a call of MetaResponse::new
    admits,          \* bag of <<redis key, now>> of checks that returned allowed (ghost)
    nreq,            \* number of requests the listener still accepts in this behaviour
    env              \* the environment of this behaviour: the requests clients send,
                     \* and whether Redis commands and response writes can fail

vars == <<store, config, published, loader, service_health, prober, now, kv,
          req, lim, rate_limiter, writer, meta, audit, admits, nreq, env>>

----------------------------------------------------------------------------
(* Bounds of the model *)

\* number of requests accepted by the listener in one behaviour
MaxRequests == 3
\* the same, when requests are served one after another
MaxSeqRequests == 6
\* last clock value
MaxTime == 4
\* last clock value where the clock only matters to the limiter's answers
MaxClock == 2
\* number of requests accepted while the configuration is reloaded
MaxReloadRequests == 2
\* number of admin writes to the store in one behaviour
MaxWrites == 2
\* the same, while requests are served
MaxReloadWrites == 1
\* number of load_config runs in one behaviour
MaxLoads == 2
\* rows in a page of a list query when the tables are a few rows long (the page of
\* load_config, scaled down with them)
SmallPage == 2
\* bits of u32, of u64, and of the significand of f64, scaled down together
\* (32 < 53 < 64)
Bits32 == 4
Bits64 == 8
BitsMantissa == 6

\* buffer added to the sliding window key's TTL
ExpireBuffer == 60

Reqs == {1, 2}

None == <<>>
Some(x) == <<x>>
IsSome(o) == o # <<>>
Unwrap(o) == o[1]

----------------------------------------------------------------------------
(* Strings that the code inspects are sequences of characters *)

PathA == <<"/", "a">>
PathAB == <<"/", "a", "/", "b">>
PathB == <<"/", "b">>

\* requests clients send: a path under /a from peer 2.2.2.2, the same through a proxy
\* that names 1.1.1.1 in X-Forwarded-For, and a path no route has
Direct ==
    [path |-> PathAB, method |-> "GET", xff |-> None, peer |-> "2.2.2.2",
     api_key |-> None, authorization |-> None, host |-> "gw", query |-> None,
     tls |-> FALSE]
Proxied == [Direct EXCEPT !.xff = Some(<<"1.1.1.1">>)]
Stray == [Direct EXCEPT !.path = PathB]

\* requests with an X-API-Key header, a key that is allowed and one that is not
Keyed == [Direct EXCEPT !.api_key = Some("k1")]
BadKey == [Direct EXCEPT !.api_key = Some("k2")]

\* requests with an Authorization header: a Bearer token of three dot-separated
\* parts, one of two parts, and a three-part value without the Bearer prefix
Bearer == [Direct EXCEPT !.authorization = Some([bearer |-> TRUE, parts |-> 3])]
BadBearer == [Direct EXCEPT !.authorization = Some([bearer |-> TRUE, parts |-> 2])]
Basic == [Direct EXCEPT !.authorization = Some([bearer |-> FALSE, parts |-> 3])]

\* requests that differ in what routing looks at: a lower-case method, another
\* method, a path equal to a pattern, a path that continues a pattern without '/',
\* and a query string
Lower == [Direct EXCEPT !.method = "get"]
Post == [Direct EXCEPT !.method = "POST", !.path = PathA]
AtPrefix == [Direct EXCEPT !.path = PathA]
Glued == [Direct EXCEPT !.path = <<"/", "a", "b">>]
Queried == [Direct EXCEPT !.query = Some(<<"x", "=", "1">>)]

\* a POST request to the path of a pattern that carries an allowed X-API-Key header
KeyedPost == [Post EXCEPT !.api_key = Some("k1")]

\* a request forwarded for the first address of the range 1.1.1.0/24
AtBase == [Direct EXCEPT !.xff = Some(<<"1.1.1.0">>)]

\* requests forwarded for 1.1.1.1 by another peer, forwarded for 9.9.9.9 through
\* 1.1.1.1, and sent by the peer 1.1.1.1 itself
ProxiedElsewhere == [Proxied EXCEPT !.peer = "3.3.3.3"]
Relayed == [Direct EXCEPT !.xff = Some(<<"9.9.9.9", "1.1.1.1">>)]
FromOffice == [Direct EXCEPT !.peer = "1.1.1.1"]

\* a request that arrives on the TLS listener (0.0.0.0:8443)
Secure == [Direct EXCEPT !.tls = TRUE]

\* load_config asks for the first page of 1000 rows of services and of routes
PageSize == 1000

\* the environment: clients, the outcomes of a Redis command, the outcomes of a write
\* of the response, the last clock value of the behaviour, the services whose
\* health endpoint answers 2xx from now on, the rows of a page of a list query, and
\* whether the process has been sent a termination signal
Env(clients, redis_ok, write_ok, horizon) ==
    [clients |-> clients, redis_ok |-> redis_ok, write_ok |-> write_ok,
     horizon |-> horizon, recovered |-> {}, page_size |-> PageSize,
     shutdown |-> FALSE]

\* str::starts_with
StartsWith(s, p) == Len(p) <= Len(s) /\ SubSeq(s, 1, Len(p)) = p

\* str::to_uppercase on the method names in use
ToUpper(m) ==
    CASE m = "get" -> "GET"
      [] m = "post" -> "POST"
      [] OTHER -> m

----------------------------------------------------------------------------
(* The store *)

ServiceIds == {"S1", "S2"}
RouteIds == {"R1", "R2"}

InitServices ==
    { [id |-> "S1", is_active |-> TRUE, health_check_url |-> Some("/hz"), created_at |-> 1,
       timeout_ms |-> Some(2),
       base_url |-> [scheme |-> "http", host |-> "svc", port |-> Some(9000)]],
      [id |-> "S2", is_active |-> TRUE, health_check_url |-> None, created_at |-> 2,
       timeout_ms |-> None,
       base_url |-> [scheme |-> "https", host |-> "api", port |-> None]] }

InitRoutes ==
    { [id |-> "R1", path_pattern |-> PathA, method |-> "GET", backend_service_id |-> "S1",
       priority |-> 1, is_active |-> TRUE, strip_path_prefix |-> TRUE,
       preserve_host_header |-> FALSE, created_at |-> 1,
       timeout_ms |-> Some(1)],
      [id |-> "R2", path_pattern |-> PathAB, method |-> "GET", backend_service_id |-> "S2",
       priority |-> 2, is_active |-> FALSE, strip_path_prefix |-> FALSE,
       preserve_host_header |-> TRUE, created_at |-> 2,
       timeout_ms |-> None] }

\* a sliding-window limit scoped to route R1
LimSliding ==
    [id |-> "L1", name |-> "per-ip", api_route_id |-> Some("R1"), max_requests |-> 1,
     window_seconds |-> 2, identifier_type |-> "ip", burst_size |-> None,
     is_active |-> TRUE, created_at |-> 1]

\* a global token-bucket limit with a burst of one
LimBucketSmall ==
    [id |-> "L3", name |-> "burst1", api_route_id |-> None, max_requests |-> 1,
     window_seconds |-> 2, identifier_type |-> "global", burst_size |-> Some(1),
     is_active |-> TRUE, created_at |-> 3]

\* a global token-bucket limit without burst
LimTiny ==
    [id |-> "L4", name |-> "tiny", api_route_id |-> None, max_requests |-> 1,
     window_seconds |-> 2, identifier_type |-> "global", burst_size |-> Some(0),
     is_active |-> TRUE, created_at |-> 4]

\* a global token-bucket limit
LimBucket ==
    [id |-> "L2", name |-> "burst", api_route_id |-> None, max_requests |-> 1,
     window_seconds |-> 2, identifier_type |-> "global", burst_size |-> Some(2),
     is_active |-> TRUE, created_at |-> 2]

\* a sliding-window limit of two requests per window, scoped to route R1
LimPair ==
    [id |-> "L5", name |-> "pair", api_route_id |-> Some("R1"), max_requests |-> 2,
     window_seconds |-> 2, identifier_type |-> "ip", burst_size |-> None,
     is_active |-> TRUE, created_at |-> 5]

\* a global token-bucket limit whose window is not a power of two
LimSlow ==
    [id |-> "L6", name |-> "slow", api_route_id |-> None, max_requests |-> 1,
     window_seconds |-> 13, identifier_type |-> "global", burst_size |-> Some(1),
     is_active |-> TRUE, created_at |-> 6]

\* a sliding-window limit per API key that applies to every route
LimByKey ==
    [id |-> "L7", name |-> "per-key", api_route_id |-> None, max_requests |-> 1,
     window_seconds |-> 2, identifier_type |-> "api_key", burst_size |-> None,
     is_active |-> TRUE, created_at |-> 7]

\* a global token-bucket limit whose window is not a multiple of max_requests
LimFast ==
    [id |-> "L8", name |-> "fast", api_route_id |-> None, max_requests |-> 2,
     window_seconds |-> 3, identifier_type |-> "global", burst_size |-> Some(1),
     is_active |-> TRUE, created_at |-> 8]

\* an ip rule scoped to route R1
RuleIp ==
    [id |-> "W1", rule_name |-> "office", api_route_id |-> Some("R1"), rule_type |-> "ip",
     allowed_ips |-> Some([kind |-> "array", items |-> << <<"1.1.1.1">> >>]),
     allowed_keys |-> None,
     priority |-> 1, is_active |-> TRUE]

\* the tables, and the number of writes the admin plane still makes (writes)
\* a global api_key rule
\* ip rules scoped to route R1 whose config lists a CIDR range, an address and a
\* one-address range, holds a string in place of the array, or has no allowed_ips
RuleCidr ==
    [RuleIp EXCEPT !.allowed_ips =
        Some([kind |-> "array", items |-> << <<"1.1.1.0", "/", "24">> >>])]
RuleTwo ==
    [RuleIp EXCEPT !.allowed_ips =
        Some([kind |-> "array", items |-> << <<"9.9.9.9">>, <<"2.2.2.2", "/", "32">> >>])]
RuleString == [RuleIp EXCEPT !.allowed_ips = Some([kind |-> "string", items |-> <<>>])]
RuleNoIps == [RuleIp EXCEPT !.allowed_ips = None]

RuleKey ==
    [id |-> "W2", rule_name |-> "partners", api_route_id |-> None, rule_type |-> "api_key",
     allowed_ips |-> None, allowed_keys |-> Some(<<"k1">>),
     priority |-> 2, is_active |-> TRUE]

\* a jwt rule scoped to route R1
RuleJwt ==
    [id |-> "W3", rule_name |-> "tokens", api_route_id |-> Some("R1"), rule_type |-> "jwt",
     allowed_ips |-> None, allowed_keys |-> None,
     priority |-> 3, is_active |-> TRUE]

\* a global rule of type custom
RuleCustom ==
    [id |-> "W4", rule_name |-> "custom", api_route_id |-> None, rule_type |-> "custom",
     allowed_ips |-> None, allowed_keys |-> None,
     priority |-> 4, is_active |-> TRUE]

\* more routes: one that ties with R1 and was created later, one of higher priority
\* with a longer pattern, one of another method, and one for every path
RouteCatalog ==
    { [id |-> "R3", path_pattern |-> PathA, method |-> "GET", backend_service_id |-> "S2",
       priority |-> 1, is_active |-> TRUE, strip_path_prefix |-> FALSE,
       preserve_host_header |-> TRUE, created_at |-> 3,
       timeout_ms |-> None],
      [id |-> "R4", path_pattern |-> PathAB, method |-> "GET", backend_service_id |-> "S2",
       priority |-> 2, is_active |-> TRUE, strip_path_prefix |-> TRUE,
       preserve_host_header |-> FALSE, created_at |-> 4,
       timeout_ms |-> None],
      [id |-> "R5", path_pattern |-> PathA, method |-> "POST", backend_service_id |-> "S1",
       priority |-> 3, is_active |-> TRUE, strip_path_prefix |-> TRUE,
       preserve_host_header |-> TRUE, created_at |-> 5,
       timeout_ms |-> None],
      [id |-> "R6", path_pattern |-> <<"/">>, method |-> "GET", backend_service_id |-> "S1",
       priority |-> 0, is_active |-> TRUE, strip_path_prefix |-> TRUE,
       preserve_host_header |-> FALSE, created_at |-> 6,
       timeout_ms |-> None] }

\* the services table with S2 active, inactive, or deleted
ServiceTables ==
    { InitServices,
      {[s EXCEPT !.is_active = (s.id = "S1")] : s \in InitServices},
      {s \in InitServices : s.id = "S1"} }

StoreWith(limits, rules, writes) ==
    [services |-> InitServices, routes |-> InitRoutes, rate_limits |-> limits,
     whitelist_rules |-> rules, writes |-> writes]

\* the rows of a set as the sequence an ORDER BY ... DESC returns; k maps a row to its sort key
RECURSIVE SortDesc(_, _)
SortDesc(S, k) ==
    IF S = {} THEN <<>>
    ELSE LET m == CHOOSE x \in S : \A y \in S : k[y] <= k[x]
         IN  <<m>> \o SortDesc(S \ {m}, k)

\* BackendServiceRepository::list: ORDER BY created_at DESC
\* LIMIT limit OFFSET (page - 1) * limit on the rows of a query
Page(rows, page, limit) ==
    LET offset == (IF page > 0 THEN page - 1 ELSE 0) * limit
    IN  SubSeq(rows, offset + 1,
               IF offset + limit < Len(rows) THEN offset + limit ELSE Len(rows))

ListServices(st) ==
    Page(SortDesc(st.services, [s \in st.services |-> s.created_at]), 1, env.page_size)

\* ApiRouteRepository::list: ORDER BY priority DESC, created_at DESC
ListRoutes(st) ==
    Page(SortDesc(st.routes, [r \in st.routes |-> r.priority * 100 + r.created_at]),
         1, env.page_size)

\* RateLimitRepository::list_active: WHERE is_active ORDER BY created_at DESC
ListActiveLimits(st) ==
    LET act == {l \in st.rate_limits : l.is_active}
    IN  SortDesc(act, [l \in act |-> l.created_at])

\* WhitelistRuleRepository::list_active: WHERE is_active ORDER BY priority DESC
ListActiveRules(st) ==
    LET act == {w \in st.whitelist_rules : w.is_active}
    IN  SortDesc(act, [w \in act |-> w.priority])

----------------------------------------------------------------------------
(* GatewayConfig and load_config *)

\* services_map: the active services by id
ServicesMap(rows) ==
    LET act == {i \in 1..Len(rows) : rows[i].is_active}
    IN  [id \in {rows[i].id : i \in act} |->
            rows[CHOOSE i \in act : rows[i].id = id]]

\* active_routes: the rows with is_active, in the order read
ActiveRoutes(rows) == SelectSeq(rows, LAMBDA r : r.is_active)

\* the rows grouped by api_route_id, each group in the order read
GroupByRoute(rows) ==
    [k \in {rows[i].api_route_id : i \in 1..Len(rows)} |->
        SelectSeq(rows, LAMBDA x : x.api_route_id = k)]

\* GatewayConfig::new: the empty snapshot; run is the load_config run that read the field (ghost)
EmptyConfig ==
    [services |-> [run |-> 0, rows |-> <<>>],
     routes |-> [run |-> 0, rows |-> <<>>],
     rate_limits |-> [run |-> 0, rows |-> <<>>],
     whitelist_rules |-> [run |-> 0, rows |-> <<>>]]

\* a load_config that keeps the routes of the snapshot in place
TornConfig(l) ==
    [services |-> l.services_map,
     routes |-> config.routes,
     rate_limits |-> l.rate_limits_map,
     whitelist_rules |-> l.whitelist_map]

\* the GatewayConfig value load_config builds from its four locals
NewConfig(l) ==
    [services |-> l.services_map,
     routes |-> l.active_routes,
     rate_limits |-> l.rate_limits_map,
     whitelist_rules |-> l.whitelist_map]

\* the snapshot a complete load_config run number n builds from store st
Snapshot(st, n) ==
    [services |-> [run |-> n, rows |-> ServicesMap(ListServices(st))],
     routes |-> [run |-> n, rows |-> ActiveRoutes(ListRoutes(st))],
     rate_limits |-> [run |-> n, rows |-> GroupByRoute(ListActiveLimits(st))],
     whitelist_rules |-> [run |-> n, rows |-> GroupByRoute(ListActiveRules(st))]]

\* a get_config that lags one publication behind
StaleConfig == published[IF Len(published) > 1 THEN Len(published) - 1 ELSE 1]

\* ConfigLoader::get_config: load_full of the ArcSwap cell
get_config == config

\* a load_config that stores what it has built whether or not the last read failed
StoreAlways(ok, new, old) == new

\* what the last step of load_config leaves in the cell: the `?` on the last read
\* returns before the store when the read failed
StoreIfOk(ok, new, old) == IF ok THEN new ELSE old

IdleLoader(l, pc) ==
    [l EXCEPT !.pc = pc, !.services_map = EmptyConfig.services,
              !.active_routes = EmptyConfig.routes,
              !.rate_limits_map = EmptyConfig.rate_limits,
              !.whitelist_map = EmptyConfig.whitelist_rules]

\* a main that goes on to spawn its tasks and to serve when the first load failed
ServeAnyway(l) ==
    IdleLoader([l EXCEPT !.last = "err", !.phase = "watch",
                         !.spawned = @ \cup {"reload", "health"}], "tick")

\* load_config returned Ok: after the first load main spawns the reload watcher and
\* the health checker and runs the server; in the watcher the loop waits for its
\* next tick
Loaded(l) ==
    IdleLoader([l EXCEPT !.phase = "watch", !.last = "ok",
                         !.spawned = @ \cup {"reload", "health"}], "tick")

\* the loader after a read returned Err: main exits on the initial load, the
\* watcher logs the error and waits for the next tick
LoadFailed(l) ==
    IdleLoader([l EXCEPT !.last = "err"],
               IF l.phase = "initial" THEN "exit" ELSE "tick")

InitLoader ==
    [pc |-> "services", phase |-> "initial", run |-> 1, last |-> "none",
     \* ghost: the background tasks main has spawned; the audit worker is spawned by
     \* AuditLogger::new, before the first load
     spawned |-> {"audit"},
     services_map |-> EmptyConfig.services, active_routes |-> EmptyConfig.routes,
     rate_limits_map |-> EmptyConfig.rate_limits,
     whitelist_map |-> EmptyConfig.whitelist_rules]

\* the loader of a gateway that has completed its initial load and serves
WatchingLoader ==
    [InitLoader EXCEPT !.pc = "tick", !.phase = "watch",
                       !.spawned = {"audit", "reload", "health"}]

\* load_config: service_repo.list(1, 1000).await? and the filter into services_map
LoadServices ==
    /\ loader.pc = "services"
    /\ \E ok \in BOOLEAN :
         loader' = IF ok
                   THEN [loader EXCEPT !.pc = "routes",
                            !.services_map = [run |-> loader.run,
                                              rows |-> ServicesMap(ListServices(store))]]
                   ELSE LoadFailed(loader)
    /\ UNCHANGED <<store, config, published, service_health, prober, now, kv, req, lim,
                   rate_limiter, writer, meta, audit, admits, nreq, env>>

\* load_config: route_repo.list(1, 1000).await? and the is_active filter
LoadRoutes ==
    /\ loader.pc = "routes"
    /\ \E ok \in BOOLEAN :
         loader' = IF ok
                   THEN [loader EXCEPT !.pc = "rate_limits",
                            !.active_routes = [run |-> loader.run,
                                               rows |-> ActiveRoutes(ListRoutes(store))]]
                   ELSE LoadFailed(loader)
    /\ UNCHANGED <<store, config, published, service_health, prober, now, kv, req, lim,
                   rate_limiter, writer, meta, audit, admits, nreq, env>>

\* load_config: rate_limit_repo.list_active().await? and the grouping by route id
LoadRateLimits ==
    /\ loader.pc = "rate_limits"
    /\ \E ok \in BOOLEAN :
         loader' = IF ok
                   THEN [loader EXCEPT !.pc = "whitelist",
                            !.rate_limits_map = [run |-> loader.run,
                                                 rows |-> GroupByRoute(ListActiveLimits(store))]]
                   ELSE LoadFailed(loader)
    /\ UNCHANGED <<store, config, published, service_health, prober, now, kv, req, lim,
                   rate_limiter, writer, meta, audit, admits, nreq, env>>

\* load_config: whitelist_repo.list_active().await?, the grouping, the construction of
\* the new GatewayConfig and self.config.store: no suspension point separates them
LoadWhitelistAndStore ==
    /\ loader.pc = "whitelist"
    /\ \E ok \in BOOLEAN :
         LET rows == IF ok THEN GroupByRoute(ListActiveRules(store)) ELSE <<>>
             l == [loader EXCEPT !.whitelist_map = [run |-> loader.run, rows |-> rows]]
             new == StoreIfOk(ok, NewConfig(l), config)
         IN  /\ config' = new
             /\ published' = IF ok THEN Append(published, new) ELSE published
             /\ loader' = IF ok
                           THEN Loaded(loader)
                           ELSE LoadFailed(loader)
    /\ UNCHANGED <<store, service_health, prober, now, kv, req, lim, rate_limiter, writer, meta, audit, admits, nreq, env>>

\* start_reload_watcher: interval.tick().await, then the next load_config run
ReloadTick ==
    /\ loader.pc = "tick"
    /\ loader.run < MaxLoads
    /\ loader' = [loader EXCEPT !.pc = "services", !.run = loader.run + 1]
    /\ UNCHANGED <<store, config, published, service_health, prober, now, kv, req, lim,
                   rate_limiter, writer, meta, audit, admits, nreq, env>>

----------------------------------------------------------------------------
(* The admin plane writes the store *)

\* ApiRouteRepository::update: the route's backend service and is_active
AdminUpdateRoute ==
    /\ store.writes > 0
    /\ \E r \in store.routes, s \in ServiceIds, a \in BOOLEAN :
         LET r2 == [r EXCEPT !.backend_service_id = s, !.is_active = a]
         IN  /\ r2 # r
             /\ store' = [store EXCEPT !.routes = (store.routes \ {r}) \cup {r2},
                                       !.writes = store.writes - 1]
    /\ UNCHANGED <<config, published, loader, service_health, prober, now, kv, req, lim,
                   rate_limiter, writer, meta, audit, admits, nreq, env>>

\* a service and a route to it that an operator adds while the gateway runs
NewService ==
    [id |-> "S3", is_active |-> TRUE, health_check_url |-> None, created_at |-> 3,
     timeout_ms |-> None, base_url |-> [scheme |-> "http", host |-> "new", port |-> None]]
NewRoute ==
    [id |-> "R7", path_pattern |-> PathB, method |-> "GET", backend_service_id |-> "S3",
     priority |-> 1, is_active |-> TRUE, strip_path_prefix |-> FALSE,
     preserve_host_header |-> FALSE, created_at |-> 7, timeout_ms |-> None]

\* BackendServiceRepository::create
AdminCreateService ==
    /\ NewService \notin store.services
    /\ store' = [store EXCEPT !.services = @ \cup {NewService}]
    /\ UNCHANGED <<config, published, loader, service_health, prober, now, kv, req, lim,
                   rate_limiter, writer, meta, audit, admits, nreq, env>>

\* ApiRouteRepository::create: the insert the foreign key on backend_service_id lets
\* through only when the service exists
AdminCreateRoute ==
    /\ NewRoute \notin store.routes
    /\ \E sv \in store.services : sv.id = NewRoute.backend_service_id
    /\ store' = [store EXCEPT !.routes = @ \cup {NewRoute}]
    /\ UNCHANGED <<config, published, loader, service_health, prober, now, kv, req, lim,
                   rate_limiter, writer, meta, audit, admits, nreq, env>>

\* BackendServiceRepository::update: the service's is_active
AdminUpdateService ==
    /\ store.writes > 0
    /\ \E s \in store.services :
         store' = [store EXCEPT
                     !.services = (store.services \ {s})
                                    \cup {[s EXCEPT !.is_active = ~s.is_active]},
                     !.writes = store.writes - 1]
    /\ UNCHANGED <<config, published, loader, service_health, prober, now, kv, req, lim,
                   rate_limiter, writer, meta, audit, admits, nreq, env>>

\* BackendServiceRepository::update with health_check_url: Some(url): the service
\* gets a health check URL (a None in the request keeps the stored value)
AdminSetHealthUrl ==
    /\ store.writes > 0
    /\ \E s \in store.services :
         /\ s.health_check_url = None
         /\ store' = [store EXCEPT
                        !.services = (store.services \ {s})
                                       \cup {[s EXCEPT !.health_check_url = Some("/hz")]},
                        !.writes = store.writes - 1]
    /\ UNCHANGED <<config, published, loader, service_health, prober, now, kv, req, lim,
                   rate_limiter, writer, meta, audit, admits, nreq, env>>

\* a write to the table that sets the nullable column health_check_url to NULL
StoreClearHealthUrl ==
    /\ store.writes > 0
    /\ \E s \in store.services :
         /\ s.health_check_url # None
         /\ store' = [store EXCEPT
                        !.services = (store.services \ {s})
                                       \cup {[s EXCEPT !.health_check_url = None]},
                        !.writes = store.writes - 1]
    /\ UNCHANGED <<config, published, loader, service_health, prober, now, kv, req, lim,
                   rate_limiter, writer, meta, audit, admits, nreq, env>>

----------------------------------------------------------------------------
(* Health checker *)

HealthyStatus == "Healthy"
UnhealthyStatus == "Unhealthy"
UnknownStatus == "Unknown"

\* an is_healthy that wants a Healthy entry
StrictlyHealthy(id) ==
    id \in DOMAIN service_health /\ service_health[id] = "Healthy"

\* HealthChecker::is_healthy: an absent entry counts as healthy
is_healthy(id) ==
    IF id \in DOMAIN service_health THEN service_health[id] = HealthyStatus ELSE TRUE

\* HealthChecker::get_status
get_status(id) ==
    IF id \in DOMAIN service_health THEN service_health[id] ELSE UnknownStatus

\* a check_service that never records Healthy
NeverRecovers(success) == UnhealthyStatus

\* a check_service that records Unknown for a GET that was not answered 2xx
UnknownOnFailure(success) == IF success THEN HealthyStatus ELSE UnknownStatus

\* the status check_service records for the outcome of its GET
NewStatus(success) == IF success THEN HealthyStatus ELSE UnhealthyStatus

\* the health checker before its first cycle; answer is a ghost: whether the last
\* GET for a service was answered 2xx
IdleProber == [pc |-> "tick", cfg |-> EmptyConfig, todo |-> {}, answer |-> <<>>]

\* what the GET of check_service can come back with: 2xx (TRUE), or a non-2xx
\* status, a timeout or a connection error (FALSE)
ProbeAnswers(id) == IF id \in env.recovered THEN {TRUE} ELSE BOOLEAN

\* the health endpoint of a service starts to answer 2xx, and keeps doing so
Recover ==
    /\ \E id \in ServiceIds \ env.recovered :
         env' = [env EXCEPT !.recovered = @ \cup {id}]
    /\ UNCHANGED <<store, config, published, loader, service_health, prober, now, kv, req,
                   lim, rate_limiter, writer, meta, audit, admits, nreq>>

\* the services of a snapshot that check_all_services probes
Probed(cfg) ==
    {id \in DOMAIN cfg.services.rows : IsSome(cfg.services.rows[id].health_check_url)}

\* start_background_checker: check_interval.tick().await, then check_all_services
\* takes the snapshot it iterates over
ProbeTick ==
    /\ prober.pc = "tick"
    /\ "health" \in loader.spawned
    /\ prober' = [prober EXCEPT !.pc = "probing", !.cfg = get_config,
                                 !.todo = Probed(get_config)]
    /\ UNCHANGED <<store, config, published, loader, service_health, now, kv, req, lim,
                   rate_limiter, writer, meta, audit, admits, nreq, env>>

\* check_service for the next service of the iteration (a HashMap: any order): the GET
\* answers 2xx (success) or anything else, and the status is inserted
ProbeService ==
    /\ prober.pc = "probing"
    /\ prober.todo # {}
    /\ \E id \in prober.todo : \E success \in ProbeAnswers(id) :
         /\ service_health' =
               [x \in DOMAIN service_health \cup {id} |->
                   IF x = id THEN NewStatus(success) ELSE service_health[x]]
         /\ prober' = [prober EXCEPT
                          !.todo = prober.todo \ {id},
                          !.answer = [x \in DOMAIN prober.answer \cup {id} |->
                                        IF x = id THEN success ELSE prober.answer[x]]]
    /\ UNCHANGED <<store, config, published, loader, now, kv, req, lim, rate_limiter, writer, meta, audit, admits, nreq, env>>

\* check_all_services returns when the iteration is over
ProbeDone ==
    /\ prober.pc = "probing"
    /\ prober.todo = {}
    /\ prober' = [prober EXCEPT !.pc = "tick", !.cfg = EmptyConfig, !.todo = {}]
    /\ UNCHANGED <<store, config, published, loader, service_health, now, kv, req, lim,
                   rate_limiter, writer, meta, audit, admits, nreq, env>>

----------------------------------------------------------------------------
(* Redis: the keys of the rate limiter *)

\* format!("ratelimit:{}", key)
SlidingKey(k) == <<"ratelimit", k>>
\* format!("ratelimit:bucket:{}", key)
BucketKey(k) == <<"ratelimit:bucket", k>>

Exists(key) == key \in DOMAIN kv

KvPut(key, val) == [x \in DOMAIN kv \cup {key} |-> IF x = key THEN val ELSE kv[x]]
KvDel(key) == [x \in DOMAIN kv \ {key} |-> kv[x]]

\* the scores (a bag: members are unique, scores are not) of a sorted set
ZMembers(key) == IF Exists(key) THEN kv[key].members ELSE EmptyBag

\* ZREMRANGEBYSCORE key 0 hi (bounds inclusive); an emptied sorted set is deleted
ZRemRangeByScore(key, hi) ==
    LET keep == {s \in BagToSet(ZMembers(key)) : ~(0 <= s /\ s <= hi)}
        left == [s \in keep |-> ZMembers(key)[s]]
    IN  IF ~Exists(key) THEN kv
        ELSE IF keep = {} THEN KvDel(key)
        ELSE KvPut(key, [kv[key] EXCEPT !.members = left])

\* ZCARD
ZCard(key) == BagCardinality(ZMembers(key))

\* ZRANGE key 0 0 WITHSCORES: the score of the first member, if any
ZOldest(key) ==
    IF ZMembers(key) = EmptyBag THEN None
    ELSE LET S == BagToSet(ZMembers(key))
         IN  Some(CHOOSE s \in S : \A t \in S : s <= t)

\* ZADD key score member, for a fresh member; a created key has no TTL
ZAdd(key, score) ==
    KvPut(key, [kind |-> "zset", members |-> ZMembers(key) (+) SetToBag({score}),
                exp |-> IF Exists(key) THEN kv[key].exp ELSE None])

\* EXPIRE key seconds: a no-op on a missing key
Expire(key, seconds) ==
    IF Exists(key) THEN KvPut(key, [kv[key] EXCEPT !.exp = Some(now + seconds)]) ELSE kv

\* HGET key tokens, HGET key last_refill (one pipeline)
HGetBucket(key) ==
    IF Exists(key) THEN <<Some(kv[key].tokens), Some(kv[key].last_refill)>>
    ELSE <<None, None>>

\* HSET key tokens, HSET key last_refill, EXPIRE key seconds (one pipeline)
HSetBucket(key, tokens, last_refill, seconds) ==
    KvPut(key, [kind |-> "hash", tokens |-> tokens, last_refill |-> last_refill,
                exp |-> Some(now + seconds)])

\* Redis removes a key whose TTL has run out
KvExpire ==
    /\ \E key \in DOMAIN kv :
         /\ IsSome(kv[key].exp)
         /\ Unwrap(kv[key].exp) <= now
         /\ kv' = KvDel(key)
    /\ UNCHANGED <<store, config, published, loader, service_health, prober, now, req, lim,
                   rate_limiter, writer, meta, audit, admits, nreq, env>>

\* a second passes; a TTL that ran out during the last second has taken effect by then
Tick ==
    /\ now < env.horizon
    /\ \A key \in DOMAIN kv : IsSome(kv[key].exp) => Unwrap(kv[key].exp) > now
    /\ now' = now + 1
    /\ UNCHANGED <<store, config, published, loader, service_health, prober, kv, req, lim,
                   rate_limiter, writer, meta, audit, admits, nreq, env>>

----------------------------------------------------------------------------
(* RateLimiter: check_rate_limit and check_rate_limit_with_burst, one action per await *)

Min(a, b) == IF a <= b THEN a ELSE b

IdleLim ==
    [pc |-> "idle", key |-> <<>>, max_requests |-> 0, window_seconds |-> 0,
     burst_size |-> 0, now |-> 0, count |-> 0, tokens |-> 0, result |-> None]

\* Err(e) of either check
LimErr == [ok |-> FALSE, allowed |-> FALSE, remaining |-> 0, reset |-> 0]
\* Ok((allowed, remaining, reset_time))
LimOk(allowed, remaining, reset) ==
    [ok |-> TRUE, allowed |-> allowed, remaining |-> remaining, reset |-> reset]

Returned(f, res) == [f EXCEPT !.pc = "ret", !.result = Some(res)]

\* a denied branch that always counts the window from the present
DeniedFromNow(key, t, window_seconds) == LimOk(FALSE, 0, t + window_seconds)

\* check_rate_limit: the result of the denied branch
SlidingDenied(key, t, window_seconds) ==
    LimOk(FALSE, 0,
          IF IsSome(ZOldest(key)) THEN Unwrap(ZOldest(key)) + window_seconds
          ELSE t + window_seconds)

\* check_rate_limit: the result of the allowed branch
SlidingAllowed(count, max_requests, t, window_seconds) ==
    LimOk(TRUE, max_requests - count - 1, t + window_seconds)

\* check_rate_limit: the branch taken on the cardinality read
SlidingExceeded(count, max_requests) == count >= max_requests

\* check_rate_limit: get_multiplexed_async_connection().await?, then now is read
SlidingConnect(r) ==
    /\ lim[r].pc = "connect"
    /\ \E ok \in env.redis_ok :
         lim' = [lim EXCEPT ![r] =
                   IF ok THEN [@ EXCEPT !.pc = "zrem", !.now = now] ELSE Returned(@, LimErr)]
    /\ UNCHANGED <<store, config, published, loader, service_health, prober, now, kv, req,
                   rate_limiter, writer, meta, audit, admits, nreq, env>>

\* check_rate_limit: conn.zrembyscore(key, 0, now - window_seconds).await?
SlidingZRem(r) ==
    /\ lim[r].pc = "zrem"
    /\ \E ok \in env.redis_ok :
         IF ok
         THEN /\ kv' = ZRemRangeByScore(SlidingKey(lim[r].key),
                                        lim[r].now - lim[r].window_seconds)
              /\ lim' = [lim EXCEPT ![r].pc = "zcard"]
         ELSE /\ kv' = kv
              /\ lim' = [lim EXCEPT ![r] = Returned(@, LimErr)]
    /\ UNCHANGED <<store, config, published, loader, service_health, prober, now, req,
                   rate_limiter, writer, meta, audit, admits, nreq, env>>

\* check_rate_limit: conn.zcard(key).await? and the comparison with max_requests
SlidingZCard(r) ==
    /\ lim[r].pc = "zcard"
    /\ \E ok \in env.redis_ok :
         lim' = [lim EXCEPT ![r] =
                   IF ok
                   THEN LET count == ZCard(SlidingKey(lim[r].key))
                        IN  [@ EXCEPT !.count = count,
                                      !.pc = IF SlidingExceeded(count, lim[r].max_requests)
                                             THEN "zrange" ELSE "zadd"]
                   ELSE Returned(@, LimErr)]
    /\ UNCHANGED <<store, config, published, loader, service_health, prober, now, kv, req,
                   rate_limiter, writer, meta, audit, admits, nreq, env>>

\* check_rate_limit, denied: conn.zrange_withscores(key, 0, 0).await?, Ok((false, 0, reset))
SlidingZRange(r) ==
    /\ lim[r].pc = "zrange"
    /\ \E ok \in env.redis_ok :
         lim' = [lim EXCEPT ![r] =
                   IF ok
                   THEN Returned(@, SlidingDenied(SlidingKey(@.key), @.now, @.window_seconds))
                   ELSE Returned(@, LimErr)]
    /\ UNCHANGED <<store, config, published, loader, service_health, prober, now, kv, req,
                   rate_limiter, writer, meta, audit, admits, nreq, env>>

\* check_rate_limit, allowed: conn.zadd(key, "{now}:{uuid}", now).await?
SlidingZAdd(r) ==
    /\ lim[r].pc = "zadd"
    /\ \E ok \in env.redis_ok :
         IF ok
         THEN /\ kv' = ZAdd(SlidingKey(lim[r].key), lim[r].now)
              /\ lim' = [lim EXCEPT ![r].pc = "expire"]
         ELSE /\ kv' = kv
              /\ lim' = [lim EXCEPT ![r] = Returned(@, LimErr)]
    /\ UNCHANGED <<store, config, published, loader, service_health, prober, now, req,
                   rate_limiter, writer, meta, audit, admits, nreq, env>>

\* check_rate_limit, allowed: conn.expire(key, window_seconds + 60).await?,
\* Ok((true, remaining, reset))
SlidingExpire(r) ==
    /\ lim[r].pc = "expire"
    /\ \E ok \in env.redis_ok :
         IF ok
         THEN /\ kv' = Expire(SlidingKey(lim[r].key), lim[r].window_seconds + ExpireBuffer)
              /\ lim' = [lim EXCEPT ![r] =
                           Returned(@, SlidingAllowed(@.count, @.max_requests, @.now,
                                                      @.window_seconds))]
              /\ admits' = admits (+) SetToBag({<<SlidingKey(lim[r].key), lim[r].now, now>>})
         ELSE /\ kv' = kv
              /\ lim' = [lim EXCEPT ![r] = Returned(@, LimErr)]
              /\ admits' = admits
    /\ UNCHANGED <<store, config, published, loader, service_health, prober, now, req,
                   rate_limiter, writer, meta, audit, nreq, env>>

\* f64 and the integer casts, with the widths of the model
U32Max == 2 ^ Bits32 - 1
U64Max == 2 ^ Bits64 - 1
I32Max == 2 ^ (Bits32 - 1) - 1

\* the exponent e of a positive rational n / d, written with BitsMantissa bits:
\* 2^(BitsMantissa - 1) <= (n / d) / 2^e < 2^BitsMantissa; Scale(e) is 2^e as a
\* pair of integers
Exponents == (0 - Bits32 - BitsMantissa)..(Bits64 - BitsMantissa + 1)
ScaleNum(e) == IF e >= 0 THEN 2 ^ e ELSE 1
ScaleDen(e) == IF e >= 0 THEN 1 ELSE 2 ^ (0 - e)
ExponentOf(n, d) ==
    CHOOSE e \in Exponents :
        /\ 2 ^ (BitsMantissa - 1) * d * ScaleNum(e) <= n * ScaleDen(e)
        /\ n * ScaleDen(e) < 2 ^ BitsMantissa * d * ScaleNum(e)

\* the f64 nearest to n / d, ties to even, as a pair <<significand, exponent>>
RoundToF64(n, d) ==
    IF n = 0 THEN <<0, 0>>
    ELSE LET e == ExponentOf(n, d)
             num == n * ScaleDen(e)
             den == d * ScaleNum(e)
             q == num \div den
             r == num % den
             up == 2 * r > den \/ (2 * r = den /\ q % 2 = 1)
         IN  <<IF up THEN q + 1 ELSE q, e>>

\* integer as f64: exact up to BitsMantissa bits, rounded beyond
AsF64(n) == RoundToF64(n, 1)

\* f64 / f64 of two values <<significand, exponent>>, rounded once
DivF64(x, y) ==
    RoundToF64(x[1] * ScaleNum(x[2]) * ScaleDen(y[2]),
               y[1] * ScaleNum(y[2]) * ScaleDen(x[2]))

\* f64 * f64 of two values <<significand, exponent>>, rounded once
MulF64(x, y) ==
    RoundToF64(x[1] * y[1] * ScaleNum(x[2]) * ScaleNum(y[2]),
               ScaleDen(x[2]) * ScaleDen(y[2]))

\* a non-negative f64 `as i32`: truncated, saturating at i32::MAX
TruncAsI32(x) ==
    LET t == (x[1] * ScaleNum(x[2])) \div ScaleDen(x[2])
    IN  IF t > I32Max THEN I32Max ELSE t

\* a non-negative f64 `as u64`: truncated, saturating at u64::MAX
TruncAsU64(x) ==
    LET t == (x[1] * ScaleNum(x[2])) \div ScaleDen(x[2])
    IN  IF t > U64Max THEN U64Max ELSE t

\* f64::ceil, then `as u32`, which saturates at u32::MAX
CeilAsU32(x) ==
    LET num == x[1] * ScaleNum(x[2])
        den == ScaleDen(x[2])
        c == (num + den - 1) \div den
    IN  IF c > U32Max THEN U32Max ELSE c

\* max_tokens = max_requests + burst_size
MaxTokens(max_requests, burst_size) == max_requests + burst_size

\* refill_rate = max_requests as f64 / window_seconds as f64
RefillRate(max_requests, window_seconds) ==
    DivF64(AsF64(max_requests), AsF64(window_seconds))

\* (elapsed as f64 * refill_rate) as i32
TokensToAdd(elapsed, max_requests, window_seconds) ==
    TruncAsI32(MulF64(AsF64(elapsed), RefillRate(max_requests, window_seconds)))

\* now.saturating_sub(last_refill_time)
SaturatingSub(a, b) == IF a >= b THEN a - b ELSE 0

\* current_tokens after the refill, from what the hash held (or its absence)
Refilled(got, t, max_requests, window_seconds, burst_size) ==
    LET max_tokens == MaxTokens(max_requests, burst_size)
        present == IsSome(got[1]) /\ IsSome(got[2])
        tokens == IF present THEN Unwrap(got[1]) ELSE max_tokens
        last_refill == IF present THEN Unwrap(got[2]) ELSE t
        elapsed == SaturatingSub(t, last_refill)
    IN  Min(tokens + TokensToAdd(elapsed, max_requests, window_seconds), max_tokens)

\* check_rate_limit_with_burst: the result of the allowed branch, tokens already consumed
BucketAllowed(tokens, t, max_requests, window_seconds, burst_size) ==
    LimOk(TRUE, tokens,
          t + TruncAsU64(DivF64(AsF64(MaxTokens(max_requests, burst_size) - tokens),
                                RefillRate(max_requests, window_seconds))))

\* check_rate_limit_with_burst: the result of the denied branch
BucketDenied(t, max_requests, window_seconds) ==
    LimOk(FALSE, 0,
          t + TruncAsU64(DivF64(AsF64(1), RefillRate(max_requests, window_seconds))))

\* check_rate_limit_with_burst: get_multiplexed_async_connection().await?, then now is read
BucketConnect(r) ==
    /\ lim[r].pc = "bconnect"
    /\ \E ok \in env.redis_ok :
         lim' = [lim EXCEPT ![r] =
                   IF ok THEN [@ EXCEPT !.pc = "hget", !.now = now] ELSE Returned(@, LimErr)]
    /\ UNCHANGED <<store, config, published, loader, service_health, prober, now, kv, req,
                   rate_limiter, writer, meta, audit, admits, nreq, env>>

\* check_rate_limit_with_burst: the hget pipeline, the refill and the branch on
\* current_tokens > 0; the denied branch returns without another await
BucketRead(r) ==
    /\ lim[r].pc = "hget"
    /\ \E ok \in env.redis_ok :
         lim' = [lim EXCEPT ![r] =
                   IF ok
                   THEN LET current == Refilled(HGetBucket(BucketKey(@.key)), @.now,
                                                @.max_requests, @.window_seconds,
                                                @.burst_size)
                        IN  IF current > 0
                            THEN [@ EXCEPT !.pc = "hset", !.tokens = current - 1]
                            ELSE Returned(@, BucketDenied(@.now, @.max_requests,
                                                          @.window_seconds))
                   ELSE Returned(@, LimErr)]
    /\ UNCHANGED <<store, config, published, loader, service_health, prober, now, kv, req,
                   rate_limiter, writer, meta, audit, admits, nreq, env>>

\* check_rate_limit_with_burst, allowed: the hset/hset/expire pipeline,
\* Ok((true, current_tokens, reset))
BucketWrite(r) ==
    /\ lim[r].pc = "hset"
    /\ \E ok \in env.redis_ok :
         IF ok
         THEN /\ kv' = HSetBucket(BucketKey(lim[r].key), lim[r].tokens, lim[r].now,
                                  lim[r].window_seconds * 2)
              /\ lim' = [lim EXCEPT ![r] =
                           Returned(@, BucketAllowed(@.tokens, @.now, @.max_requests,
                                                     @.window_seconds, @.burst_size))]
              /\ admits' = admits (+) SetToBag({<<BucketKey(lim[r].key), lim[r].now, now>>})
         ELSE /\ kv' = kv
              /\ lim' = [lim EXCEPT ![r] = Returned(@, LimErr)]
              /\ admits' = admits
    /\ UNCHANGED <<store, config, published, loader, service_health, prober, now, req,
                   rate_limiter, writer, meta, audit, nreq, env>>

----------------------------------------------------------------------------
(* Router *)

\* a find_route that takes the last candidate of the list, whatever its priority
LastCandidate(cfg, path, method) ==
    LET rows == cfg.routes.rows
        cand == {i \in 1..Len(rows) :
                    rows[i].method = ToUpper(method) /\ StartsWith(path, rows[i].path_pattern)}
    IN  IF cand = {} THEN None
        ELSE Some(rows[CHOOSE i \in cand : \A j \in cand : j <= i])

\* ConfigLoader::find_route on a snapshot: the candidates are the routes of the method
\* whose pattern is a prefix of the path; max_by_key returns the last maximum
find_route(cfg, path, method) ==
    LET rows == cfg.routes.rows
        cand == {i \in 1..Len(rows) :
                    rows[i].method = ToUpper(method) /\ StartsWith(path, rows[i].path_pattern)}
    IN  IF cand = {} THEN None
        ELSE Some(rows[CHOOSE i \in cand :
                         \A j \in cand : \/ rows[j].priority < rows[i].priority
                                         \/ rows[j].priority = rows[i].priority /\ j <= i])

\* a get_service that falls back to another service of the snapshot
AnyService(cfg, id) ==
    IF id \in DOMAIN cfg.services.rows THEN Some(cfg.services.rows[id])
    ELSE IF DOMAIN cfg.services.rows = {} THEN None
    ELSE Some(cfg.services.rows[CHOOSE x \in DOMAIN cfg.services.rows : TRUE])

\* ConfigLoader::get_service on a snapshot
get_service(cfg, id) ==
    IF id \in DOMAIN cfg.services.rows THEN Some(cfg.services.rows[id]) ELSE None

\* the entries of map m under key k, or none
Entries(m, k) == IF k \in DOMAIN m THEN m[k] ELSE <<>>

\* Vec::sort_by(|a, b| b.priority.cmp(&a.priority)): stable, highest priority first
RECURSIVE SortByPriority(_)
SortByPriority(rules) ==
    IF rules = <<>> THEN <<>>
    ELSE LET i == CHOOSE i \in 1..Len(rules) :
                    /\ \A j \in 1..Len(rules) : rules[j].priority <= rules[i].priority
                    /\ \A j \in 1..(i - 1) : rules[j].priority < rules[i].priority
         IN  <<rules[i]>> \o SortByPriority(SubSeq(rules, 1, i - 1)
                                              \o SubSeq(rules, i + 1, Len(rules)))

\* Router::get_rate_limits on a snapshot: the route's limits, then the global ones
\* (the empty list stands for the None it returns)
get_rate_limits(cfg, route_id) ==
    Entries(cfg.rate_limits.rows, Some(route_id)) \o Entries(cfg.rate_limits.rows, None)

\* Router::get_whitelist_rules on a snapshot: the route's rules and the global ones,
\* sorted by priority (the empty list stands for the None it returns)
\* a rule list made of the route's own rules, falling back to the global rules only
\* when the route has none
ScopedFirst(cfg, route_id) ==
    IF Entries(cfg.whitelist_rules.rows, Some(route_id)) # <<>>
    THEN SortByPriority(Entries(cfg.whitelist_rules.rows, Some(route_id)))
    ELSE SortByPriority(Entries(cfg.whitelist_rules.rows, None))

get_whitelist_rules(cfg, route_id) ==
    SortByPriority(Entries(cfg.whitelist_rules.rows, Some(route_id))
                     \o Entries(cfg.whitelist_rules.rows, None))

\* a transform_path that leaves the remainder as it is
StripBare(route, original_path) ==
    IF route.strip_path_prefix /\ StartsWith(original_path, route.path_pattern)
    THEN SubSeq(original_path, Len(route.path_pattern) + 1, Len(original_path))
    ELSE original_path

\* Router::transform_path
transform_path(route, original_path) ==
    IF route.strip_path_prefix /\ StartsWith(original_path, route.path_pattern)
    THEN LET stripped == SubSeq(original_path, Len(route.path_pattern) + 1,
                                Len(original_path))
         IN  IF stripped = <<>> \/ stripped[1] # "/" THEN <<"/">> \o stripped ELSE stripped
    ELSE original_path

----------------------------------------------------------------------------
(* WhitelistValidator *)

\* allowed_pattern.split('/').next(): what stands before the first '/'
BeforeSlash(pattern) ==
    LET at == {i \in 1..Len(pattern) : pattern[i] = "/"}
    IN  SubSeq(pattern, 1, (CHOOSE i \in at : \A j \in at : i <= j) - 1)

\* an ip_matches that takes every address for a member of a CIDR range
AnyInRange(client_ip, pattern) ==
    IF \E i \in 1..Len(pattern) : pattern[i] = "/" THEN TRUE
    ELSE <<client_ip>> = pattern

\* ip_matches: a pattern is a string, here the sequence of its parts with '/' as a
\* part of its own; a pattern with a '/' is compared by what stands before it
ip_matches(client_ip, pattern) ==
    IF \E i \in 1..Len(pattern) : pattern[i] = "/"
    THEN <<client_ip>> = BeforeSlash(pattern)
    ELSE <<client_ip>> = pattern

\* validate_ip_rule
validate_ip_rule(rule, client_ip) ==
    /\ IsSome(client_ip)
    /\ IsSome(rule.allowed_ips)
    /\ Unwrap(rule.allowed_ips).kind = "array"
    /\ \E i \in 1..Len(Unwrap(rule.allowed_ips).items) :
         ip_matches(Unwrap(client_ip), Unwrap(rule.allowed_ips).items[i])

\* validate_api_key_rule
validate_api_key_rule(rule, q) ==
    /\ IsSome(q.api_key)
    /\ IsSome(rule.allowed_keys)
    /\ \E i \in 1..Len(Unwrap(rule.allowed_keys)) :
         Unwrap(rule.allowed_keys)[i] = Unwrap(q.api_key)

\* validate_jwt_rule: "Bearer " and a token of three dot-separated parts
validate_jwt_rule(rule, q) ==
    /\ IsSome(q.authorization)
    /\ Unwrap(q.authorization).bearer
    /\ Unwrap(q.authorization).parts = 3

rule_allows(rule, q, client_ip) ==
    CASE rule.rule_type = "ip" -> validate_ip_rule(rule, client_ip)
      [] rule.rule_type = "api_key" -> validate_api_key_rule(rule, q)
      [] rule.rule_type = "jwt" -> validate_jwt_rule(rule, q)
      [] OTHER -> FALSE

\* validate_request, the loop: the name of the first rule of the list that allows
RECURSIVE MatchingRule(_, _, _)
MatchingRule(rules, q, client_ip) ==
    IF rules = <<>> THEN None
    ELSE IF rule_allows(Head(rules), q, client_ip) THEN Some(Head(rules).rule_name)
    ELSE MatchingRule(Tail(rules), q, client_ip)

\* a validate_request that consults the rule of highest priority only
FirstRuleOnly(rules, q, client_ip) ==
    rules = <<>> \/ rule_allows(Head(rules), q, client_ip)

\* validate_request: allowed, with no rules or by the first rule that matches
validate_request(rules, q, client_ip) ==
    rules = <<>> \/ IsSome(MatchingRule(rules, q, client_ip))

----------------------------------------------------------------------------
(* KaratewayProxy::request_filter, one action per shared access or await *)

IdleReq ==
    [pc |-> "idle", path |-> <<>>, method |-> "", xff |-> None, peer |-> "",
     api_key |-> None, user_id |-> None, authorization |-> None,
     host |-> "", query |-> None, tls |-> FALSE,
     route |-> None, service |-> None, limits |-> <<>>, li |-> 0,
     responses |-> <<>>, headers |-> None, body |-> None, forwarded |-> FALSE,
     failed |-> FALSE,
     \* ctx, and the Host header of the upstream request
     upstream_host |-> "", upstream_port |-> 0, upstream_path |-> <<>>, use_tls |-> FALSE,
     preserve_host |-> FALSE, upstream_host_header |-> <<>>,
     x_forwarded_proto |-> None,
     \* the upstream exchange: "none", "waiting" once the request was sent to the
     \* peer, "answered"; the timeouts of the peer; when the request was sent
     upstream |-> "none", peer_options |-> None, sent |-> 0,
     \* ghosts: the run of the snapshot each get_config returned, the number of
     \* publications when the request arrived and when its route was looked up, the
     \* whitelist decision, the number of limiter calls made, whether one returned Err
     seen |-> <<>>, start |-> 0, routed |-> 0, whitelist |-> "none", checks |-> 0,
     limiter_err |-> FALSE,
     \* ghosts: the results of the limiter calls of the request, in order, and the
     \* status of the backend service when the health gate looked
     results |-> <<>>, gate |-> "none",
     \* ghost: the records the request passed to AuditLogger::log
     logged |-> <<>>]

\* the run that built a snapshot
RunOf(cfg) == cfg.routes.run

\* a client IP that is the peer address whatever the headers say
PeerIp(q) == Some(q.peer)

\* the client IP: the first comma-separated value of X-Forwarded-For, else the peer address
ClientIp(q) ==
    IF IsSome(q.xff)
    THEN Some(IF Unwrap(q.xff) = <<>> THEN "" ELSE Unwrap(q.xff)[1])
    ELSE Some(q.peer)

\* the identifier of a limit for a request
Identifier(limit, q) ==
    CASE limit.identifier_type = "ip" ->
            IF IsSome(ClientIp(q)) THEN Unwrap(ClientIp(q)) ELSE "unknown"
      [] limit.identifier_type = "api_key" ->
            IF IsSome(q.api_key) THEN Unwrap(q.api_key) ELSE "no-api-key"
      [] limit.identifier_type = "user_id" ->
            IF IsSome(q.user_id) THEN Unwrap(q.user_id) ELSE "no-user-id"
      [] OTHER -> "global"

\* a key that names the route the limit is scoped to, not the route that matched
KeyOfScope(route, limit, q) ==
    <<IF IsSome(limit.api_route_id) THEN Unwrap(limit.api_route_id) ELSE "global",
      limit.identifier_type, Identifier(limit, q)>>

\* format!("{}:{}:{}", route.id, limit.identifier_type, identifier)
RateLimitKey(route, limit, q) == <<route.id, limit.identifier_type, Identifier(limit, q)>>

\* the call of the limiter for limit number li of the request
CallFrame(q, li) ==
    LET limit == q.limits[li]
        burst == IsSome(limit.burst_size)
    IN  [IdleLim EXCEPT !.pc = IF burst THEN "bconnect" ELSE "connect",
                        !.key = RateLimitKey(Unwrap(q.route), limit, q),
                        !.max_requests = limit.max_requests,
                        !.window_seconds = limit.window_seconds,
                        !.burst_size = IF burst THEN Unwrap(limit.burst_size) ELSE 0]

\* a request_filter that returns Ok(false) after the response was written
HandledFallsThrough(q) == [q EXCEPT !.pc = "done", !.forwarded = TRUE]

\* return Ok(true) after the response was written: the request is handled
Handled(q) == [q EXCEPT !.pc = "done"]

\* the `?` of request_filter: it returns the error
Failed(q) == [q EXCEPT !.pc = "done", !.failed = TRUE]

\* a short-circuit: write_response_header(..).await?, write_response_body(..).await?
\* (either may fail), return Ok(true)
\* the body written after the response header of a status: 'Not Found', or the
\* "error" member of the JSON body
Body(status) ==
    CASE status = 404 -> "Not Found"
      [] status = 403 -> "Forbidden"
      [] status = 503 -> "Service Unavailable"
      [] status = 429 -> "Rate limit exceeded"

ShortCircuit(q, status, header_ok, body_ok) ==
    LET w == IF header_ok THEN [q EXCEPT !.responses = Append(@, status)] ELSE q
    IN  IF header_ok /\ body_ok THEN Handled([w EXCEPT !.body = Some(Body(status))])
        ELSE Failed(w)

\* the end of request_filter: the upstream path is computed and Ok(false) hands the
\* request to the upstream dispatch
\* format!("{}{}", transformed_path, query), the query being "?" and the query
\* string of the request, or nothing
FullPath(transformed_path, query) ==
    transformed_path \o (IF IsSome(query) THEN <<"?">> \o Unwrap(query) ELSE <<>>)

\* Url::port().unwrap_or(443 for https, else 80)
UpstreamPort(base_url) ==
    IF IsSome(base_url.port) THEN Unwrap(base_url.port)
    ELSE IF base_url.scheme = "https" THEN 443 ELSE 80

\* upstream_request_filter: the Host header of the upstream request is the client's
\* unless the route does not preserve it: then it is ctx.upstream_host
upstream_request_filter(q) ==
    [q EXCEPT !.upstream_host_header =
                 IF ~q.preserve_host THEN <<q.upstream_host>> ELSE <<q.host>>,
              !.x_forwarded_proto = Some(IF q.use_tls THEN "https" ELSE "http")]

\* the end of request_filter, which fills ctx and returns Ok(false), and
\* upstream_request_filter on the request that goes upstream
Forward(q) ==
    LET route == Unwrap(q.route)
        backend_url == Unwrap(q.service).base_url
    IN  upstream_request_filter(
            [q EXCEPT !.pc = "done", !.forwarded = TRUE,
                      !.upstream_host = backend_url.host,
                      !.upstream_port = UpstreamPort(backend_url),
                      !.upstream_path = FullPath(transform_path(route, q.path), q.query),
                      !.use_tls = backend_url.scheme = "https",
                      !.preserve_host = route.preserve_host_header])

\* a request_filter that logs the whitelist denial and goes on to the health gate
WhitelistLogsOnly(q, allowed, header_ok, body_ok) ==
    [q EXCEPT !.pc = "health", !.whitelist = IF allowed THEN "allowed" ELSE "denied"]

\* the stage that follows the whitelist check
AfterWhitelist(q, allowed, header_ok, body_ok) ==
    IF allowed THEN [q EXCEPT !.pc = "health", !.whitelist = "allowed"]
    ELSE ShortCircuit([q EXCEPT !.whitelist = "denied"], 403, header_ok, body_ok)

\* the stage that follows the health gate
AfterHealth(q, healthy, header_ok, body_ok) ==
    IF healthy THEN [q EXCEPT !.pc = "limits"]
    ELSE ShortCircuit(q, 503, header_ok, body_ok)

\* the limit loop of request_filter, at limit number li: the limiter is called, or
\* the loop is over
CheckLimit(q, li) ==
    IF li > Len(q.limits) THEN Forward(q)
    ELSE [q EXCEPT !.li = li, !.pc = "check", !.checks = q.checks + 1]

\* the rate-limit headers of the 429 for a limit and the result of its check
RateLimitHeaders(limit, res) ==
    [x_ratelimit_limit |-> limit.max_requests, x_ratelimit_remaining |-> 0,
     x_ratelimit_reset |-> res.reset, retry_after |-> limit.window_seconds]

\* a request_filter in which only the last limit's denial counts
AfterCheckLastDecides(q, res, header_ok, body_ok) ==
    IF ~res.ok THEN Failed(q)
    ELSE IF ~res.allowed /\ q.li = Len(q.limits)
    THEN ShortCircuit([q EXCEPT !.headers = Some(RateLimitHeaders(q.limits[q.li], res))],
                      429, header_ok, body_ok)
    ELSE CheckLimit(q, q.li + 1)

\* a request_filter that treats a limiter error as an admission
AfterCheckFailOpen(q, res, header_ok, body_ok) ==
    IF res.ok /\ ~res.allowed THEN ShortCircuit(q, 429, header_ok, body_ok)
    ELSE CheckLimit(q, q.li + 1)

\* what request_filter does with the result of a limiter call
AfterCheck(q, res, header_ok, body_ok) ==
    IF ~res.ok THEN Failed(q)
    ELSE IF ~res.allowed
    THEN ShortCircuit([q EXCEPT !.headers = Some(RateLimitHeaders(q.limits[q.li], res))],
                      429, header_ok, body_ok)
    ELSE CheckLimit(q, q.li + 1)

\* the audit_log_worker: it waits in rx.recv() ("recv"), saves the record it took
\* ("save"), or has ended and dropped the receiver ("stopped"). taken counts the
\* records received; audit_logs is the table, one row per successful insert;
\* ghosts: the positions in the channel of the records taken, in order, and of those
\* whose insert failed
IdleWriter ==
    [pc |-> "recv", log |-> None, taken |-> 0, audit_logs |-> <<>>,
     attempts |-> <<>>, dropped |-> <<>>]

\* AuditLogger::log: tx.send on the unbounded channel appends the record; when the
\* receiver is gone send returns Err, which is logged, and the record is lost
log(record) == IF writer.pc = "stopped" THEN audit ELSE Append(audit, record)

\* a worker that takes the record at the head of the channel without removing it
ReceivedAgain(w) ==
    [w EXCEPT !.pc = "save", !.log = Some(audit[w.taken + 1]),
              !.attempts = Append(@, w.taken + 1)]

\* rx.recv().await returned Some(log): the oldest record not yet taken
Received(w) ==
    [w EXCEPT !.pc = "save", !.log = Some(audit[w.taken + 1]), !.taken = @ + 1,
              !.attempts = Append(@, w.taken + 1)]

\* a worker that ends at the first insert that fails
StopOnError(w, ok) ==
    IF ok THEN [w EXCEPT !.pc = "recv", !.log = None,
                         !.audit_logs = Append(@, [idx |-> w.taken, log |-> Unwrap(w.log)])]
    ELSE [w EXCEPT !.pc = "stopped", !.log = None, !.dropped = Append(@, w.taken)]

\* save_audit_log returned: Ok after the insert, or Err, which is logged; the
\* worker goes back to rx.recv()
Saved(w, ok) ==
    IF ok THEN [w EXCEPT !.pc = "recv", !.log = None,
                         !.audit_logs = Append(@, [idx |-> w.taken, log |-> Unwrap(w.log)])]
    ELSE [w EXCEPT !.pc = "recv", !.log = None, !.dropped = Append(@, w.taken)]

\* audit_log_worker: rx.recv().await while a record is in the channel
WriterRecv ==
    /\ writer.pc = "recv"
    /\ writer.taken < Len(audit)
    /\ writer' = Received(writer)
    /\ UNCHANGED <<store, config, published, loader, service_health, prober, now, kv, req,
                   lim, rate_limiter, meta, audit, admits, nreq, env>>

\* audit_log_worker: save_audit_log(&pool, &log).await, the insert succeeds or fails
WriterSave ==
    /\ writer.pc = "save"
    /\ \E ok \in BOOLEAN : writer' = Saved(writer, ok)
    /\ UNCHANGED <<store, config, published, loader, service_health, prober, now, kv, req,
                   lim, rate_limiter, meta, audit, admits, nreq, env>>

\* the worker task ends while senders remain (its runtime goes away, or it panics):
\* the receiver is dropped with the records still in the channel
WriterStop ==
    /\ writer.pc # "stopped"
    /\ writer' = [writer EXCEPT !.pc = "stopped", !.log = None]
    /\ UNCHANGED <<store, config, published, loader, service_health, prober, now, kv, req,
                   lim, rate_limiter, meta, audit, admits, nreq, env>>

WhitelistDeniedRecord(q) ==
    [event_type |-> "WhitelistDenied", event_category |-> "Whitelist",
     severity |-> "warning", status_code |-> 403, api_route_id |-> Unwrap(q.route).id,
     client_ip |-> ClientIp(q), metadata |-> None]

RateLimitExceededRecord(q, limit) ==
    [event_type |-> "RateLimitExceeded", event_category |-> "RateLimit",
     severity |-> "warning", status_code |-> 429, api_route_id |-> Unwrap(q.route).id,
     client_ip |-> ClientIp(q),
     metadata |-> Some([limit_name |-> limit.name,
                        identifier_type |-> limit.identifier_type,
                        identifier |-> Identifier(limit, q),
                        max_requests |-> limit.max_requests,
                        window_seconds |-> limit.window_seconds])]

\* a connection task receives a request and calls request_filter
Accept(r) ==
    /\ req[r].pc \in {"idle", "done"}
    /\ req[r].upstream # "waiting"
    /\ loader.phase = "watch"
    /\ ~env.shutdown
    /\ nreq > 0
    /\ nreq' = nreq - 1
    /\ \E c \in env.clients :
         req' = [req EXCEPT ![r] =
                   [IdleReq EXCEPT !.pc = "route", !.path = c.path, !.method = c.method,
                                   !.xff = c.xff, !.peer = c.peer,
                                   !.api_key = c.api_key,
                                   !.authorization = c.authorization,
                                   !.host = c.host, !.query = c.query,
                                   !.tls = c.tls,
                                   !.start = Len(published)]]
    /\ UNCHANGED <<store, config, published, loader, service_health, prober, now, kv, lim,
                   rate_limiter, writer, meta, audit, admits, env>>

\* Router::route_request: self.config_loader.find_route(path, method)?; without a
\* route request_filter answers 404
FindRoute(r) ==
    /\ req[r].pc = "route"
    /\ \E header_ok \in env.write_ok, body_ok \in env.write_ok :
         LET cfg == get_config
             route == find_route(cfg, req[r].path, req[r].method)
             q == [req[r] EXCEPT !.seen = Append(@, RunOf(cfg)), !.route = route,
                                 !.routed = Len(published)]
         IN  req' = [req EXCEPT ![r] =
                       IF IsSome(route) THEN [q EXCEPT !.pc = "service"]
                       ELSE ShortCircuit(q, 404, header_ok, body_ok)]
    /\ UNCHANGED <<store, config, published, loader, service_health, prober, now, kv, lim,
                   rate_limiter, writer, meta, audit, admits, nreq, env>>

\* Router::route_request: self.config_loader.get_service(&route.backend_service_id)?
\* and the is_active test; without a service request_filter answers 404
GetService(r) ==
    /\ req[r].pc = "service"
    /\ \E header_ok \in env.write_ok, body_ok \in env.write_ok :
         LET cfg == get_config
             service == get_service(cfg, Unwrap(req[r].route).backend_service_id)
             q == [req[r] EXCEPT !.seen = Append(@, RunOf(cfg))]
         IN  req' = [req EXCEPT ![r] =
                       IF IsSome(service) /\ Unwrap(service).is_active
                       THEN [q EXCEPT !.pc = "whitelist", !.service = service]
                       ELSE ShortCircuit(q, 404, header_ok, body_ok)]
    /\ UNCHANGED <<store, config, published, loader, service_health, prober, now, kv, lim,
                   rate_limiter, writer, meta, audit, admits, nreq, env>>

\* request_filter: get_whitelist_rules, validate_request and, on a denial, the audit
\* record and the 403
Whitelist(r) ==
    /\ req[r].pc = "whitelist"
    /\ \E header_ok \in env.write_ok, body_ok \in env.write_ok :
         LET cfg == get_config
             rules == get_whitelist_rules(cfg, Unwrap(req[r].route).id)
             q == [req[r] EXCEPT !.seen = Append(@, RunOf(cfg))]
             allowed == validate_request(rules, q, ClientIp(q))
             w == IF allowed THEN q
                  ELSE [q EXCEPT !.logged = Append(@, WhitelistDeniedRecord(q))]
         IN  /\ req' = [req EXCEPT ![r] = AfterWhitelist(w, allowed, header_ok, body_ok)]
             /\ audit' = IF allowed THEN audit ELSE log(WhitelistDeniedRecord(q))
    /\ UNCHANGED <<store, config, published, loader, service_health, prober, now, kv, lim,
                   rate_limiter, writer, meta, admits, nreq, env>>

\* request_filter: the health gate and its 503
HealthGate(r) ==
    /\ req[r].pc = "health"
    /\ \E header_ok \in env.write_ok, body_ok \in env.write_ok :
         LET id == Unwrap(req[r].service).id
         IN  req' = [req EXCEPT ![r] =
                       AfterHealth([@ EXCEPT !.gate = get_status(id)], is_healthy(id),
                                   header_ok, body_ok)]
    /\ UNCHANGED <<store, config, published, loader, service_health, prober, now, kv, lim,
                   rate_limiter, writer, meta, audit, admits, nreq, env>>

\* request_filter: with a limiter, get_rate_limits and the call for the first limit;
\* without limiter or limits, the request goes upstream
GetRateLimits(r) ==
    /\ req[r].pc = "limits"
    /\ LET cfg == get_config
           limits == get_rate_limits(cfg, Unwrap(req[r].route).id)
           q == IF rate_limiter
                THEN CheckLimit([req[r] EXCEPT !.seen = Append(@, RunOf(cfg)),
                                               !.limits = limits], 1)
                ELSE Forward(req[r])
       IN  /\ req' = [req EXCEPT ![r] = q]
           /\ lim' = [lim EXCEPT ![r] = IF q.pc = "check" THEN CallFrame(q, q.li) ELSE @]
    /\ UNCHANGED <<store, config, published, loader, service_health, prober, now, kv,
                   rate_limiter, writer, meta, audit, admits, nreq, env>>

\* a request_filter that audits every limiter result
AuditEveryCheck(q, res, limit) == <<RateLimitExceededRecord(q, limit)>>

\* request_filter: the records it passes to audit_logger.log for a limiter result:
\* one for Ok((false, _, _)), none otherwise
LimitAudit(q, res, limit) ==
    IF res.ok /\ ~res.allowed THEN <<RateLimitExceededRecord(q, limit)>> ELSE <<>>

\* request_filter: the limiter call returns: the error is propagated, a denial is
\* audited and answered 429, otherwise the next limit is checked or the request
\* goes upstream
LimitReturn(r) ==
    /\ req[r].pc = "check"
    /\ lim[r].pc = "ret"
    /\ \E header_ok \in env.write_ok, body_ok \in env.write_ok :
         LET res == Unwrap(lim[r].result)
             limit == req[r].limits[req[r].li]
             q == AfterCheck([req[r] EXCEPT
                                 !.limiter_err = ~res.ok,
                                 !.results = Append(@, res),
                                 !.logged = @ \o LimitAudit(req[r], res, limit)],
                             res, header_ok, body_ok)
         IN  /\ req' = [req EXCEPT ![r] = q]
             /\ lim' = [lim EXCEPT ![r] = IF q.pc = "check" THEN CallFrame(q, q.li)
                                          ELSE IdleLim]
             /\ audit' = IF LimitAudit(req[r], res, limit) # <<>>
                          THEN log(LimitAudit(req[r], res, limit)[1])
                          ELSE audit
    /\ UNCHANGED <<store, config, published, loader, service_health, prober, now, kv,
                   rate_limiter, writer, meta, admits, nreq, env>>

\* HttpPeer::new: the options of a new peer have no connection, read, write or
\* total timeout
PeerOptions ==
    [connection_timeout |-> None, total_connection_timeout |-> None,
     read_timeout |-> None, write_timeout |-> None,
     verify_cert |-> TRUE, verify_hostname |-> TRUE]

\* upstream_peer: a new peer for ctx.upstream_host and ctx.upstream_port, without
\* certificate verification for a TLS backend; the request is sent to it
UpstreamPeer(r) ==
    /\ req[r].pc = "done"
    /\ req[r].forwarded
    /\ req[r].upstream = "none"
    /\ req' = [req EXCEPT ![r].upstream = "waiting", ![r].sent = now,
                          ![r].peer_options =
                              Some(IF req[r].use_tls
                                   THEN [PeerOptions EXCEPT !.verify_cert = FALSE,
                                                            !.verify_hostname = FALSE]
                                   ELSE PeerOptions)]
    /\ UNCHANGED <<store, config, published, loader, service_health, prober, now, kv, lim,
                   rate_limiter, writer, meta, audit, admits, nreq, env>>

\* the backend answers and its response goes to the client; a read that has a
\* timeout does not wait longer than it
UpstreamResponse(r) ==
    /\ req[r].upstream = "waiting"
    /\ LET read_timeout == Unwrap(req[r].peer_options).read_timeout
       IN  IsSome(read_timeout) => now <= req[r].sent + Unwrap(read_timeout)
    /\ req' = [req EXCEPT ![r].upstream = "answered",
                          ![r].responses = Append(@, 200)]
    /\ UNCHANGED <<store, config, published, loader, service_health, prober, now, kv, lim,
                   rate_limiter, writer, meta, audit, admits, nreq, env>>

\* the process is sent SIGTERM: server.run_forever() closes its listeners; nothing
\* in main tells the runtime's tasks
SignalShutdown ==
    /\ ~env.shutdown
    /\ env' = [env EXCEPT !.shutdown = TRUE]
    /\ UNCHANGED <<store, config, published, loader, service_health, prober, now, kv, req,
                   lim, rate_limiter, writer, meta, audit, admits, nreq>>

----------------------------------------------------------------------------
(* karateway-core: MetaResponse *)

\* MetaResponse::new
MetaResponseNew(page, limit, total_data) ==
    LET total_pages == IF limit > 0
                       THEN CeilAsU32(DivF64(AsF64(total_data), AsF64(limit)))
                       ELSE 0
    IN  [page |-> Some(page), limit |-> Some(limit), total_data |-> Some(total_data),
         total_pages |-> Some(total_pages)]

\* no call of MetaResponse::new
IdleMeta == [pc |-> "idle", page |-> 0, limit |-> 0, total_data |-> 0, result |-> None]

\* a handler of the admin API has the page and the limit of its query and the count
\* of the table: any u32 limit, any u64 total, a first or a last page
MetaCall ==
    /\ meta.pc = "idle"
    /\ \E page \in {1, U32Max}, limit \in 0..U32Max, total_data \in 0..U64Max :
          meta' = [meta EXCEPT !.pc = "call", !.page = page, !.limit = limit,
                               !.total_data = total_data]
    /\ UNCHANGED <<store, config, published, loader, service_health, prober, now, kv, req,
                   lim, rate_limiter, writer, audit, admits, nreq, env>>

\* the handler builds the metadata of the page
MetaNew ==
    /\ meta.pc = "call"
    /\ meta' = [meta EXCEPT !.pc = "done",
                            !.result = Some(MetaResponseNew(meta.page, meta.limit,
                                                            meta.total_data))]
    /\ UNCHANGED <<store, config, published, loader, service_health, prober, now, kv, req,
                   lim, rate_limiter, writer, audit, admits, nreq, env>>

----------------------------------------------------------------------------
(* Specifications *)

\* a gateway that serves: the initial load_config run has published the store's content
Serving(st, limiter, budget, e) ==
    /\ env = e
    /\ store = st
    /\ config = Snapshot(st, 1)
    /\ published = <<EmptyConfig, Snapshot(st, 1)>>
    /\ loader = WatchingLoader
    /\ service_health = <<>>
    /\ prober = IdleProber
    /\ now = 0
    /\ kv = <<>>
    /\ req = [r \in Reqs |-> IdleReq]
    /\ lim = [r \in Reqs |-> IdleLim]
    /\ rate_limiter = limiter
    /\ audit = <<>>
    /\ writer = IdleWriter
    /\ meta = IdleMeta
    /\ admits = EmptyBag
    /\ nreq = budget

\* request_filter up to the limiter
Pipeline(r) ==
    \/ Accept(r)
    \/ FindRoute(r)
    \/ GetService(r)
    \/ Whitelist(r)
    \/ HealthGate(r)
    \/ GetRateLimits(r)

Sliding(r) ==
    \/ SlidingConnect(r)
    \/ SlidingZRem(r)
    \/ SlidingZCard(r)
    \/ SlidingZRange(r)
    \/ SlidingZAdd(r)
    \/ SlidingExpire(r)

Bucket(r) ==
    \/ BucketConnect(r)
    \/ BucketRead(r)
    \/ BucketWrite(r)

\* load_config, run by main and then by the reload watcher
Writer == WriterRecv \/ WriterSave

Loader ==
    \/ LoadServices
    \/ LoadRoutes
    \/ LoadRateLimits
    \/ LoadWhitelistAndStore
    \/ ReloadTick

\* the admin plane
Admin ==
    \/ AdminUpdateRoute
    \/ AdminUpdateService

\* the background health checker
Prober ==
    \/ ProbeTick
    \/ ProbeService
    \/ ProbeDone

\* concurrent requests under one sliding-window limit
InitSliding ==
    Serving(StoreWith({LimSliding}, {}, 0), TRUE, MaxRequests,
            Env({Direct, Stray}, BOOLEAN, {TRUE}, MaxTime))
NextSliding == Tick \/ \E r \in Reqs : Pipeline(r) \/ Sliding(r) \/ LimitReturn(r)
SpecSliding == InitSliding /\ [][NextSliding]_vars

\* requests served one after another under one sliding-window limit
InitSlidingSeq ==
    Serving(StoreWith({LimPair}, {}, 0), TRUE, MaxSeqRequests,
            Env({Direct}, {TRUE}, {TRUE}, MaxTime))
NextSlidingSeq == Tick \/ Pipeline(1) \/ Sliding(1) \/ LimitReturn(1)
SpecSlidingSeq == InitSlidingSeq /\ [][NextSlidingSeq]_vars

\* requests served one after another under one slow token-bucket limit, over one window
InitRefill ==
    Serving(StoreWith({LimSlow}, {}, 0), TRUE, MaxRequests,
            Env({Direct}, {TRUE}, {TRUE}, LimSlow.window_seconds))
NextRefill == Tick \/ Pipeline(1) \/ Bucket(1) \/ LimitReturn(1)
SpecRefill == InitRefill /\ [][NextRefill]_vars

\* concurrent requests on two routes under limits of three identifier types
InitKeys ==
    Serving([StoreWith({LimSliding, LimTiny, LimByKey}, {}, 0) EXCEPT
                !.routes = @ \cup {x \in RouteCatalog : x.method = "POST"}],
            TRUE, MaxReloadRequests,
            Env({Direct, Proxied, Keyed, Post}, {TRUE}, {TRUE}, 0))
NextKeys == \E r \in Reqs : Pipeline(r) \/ Sliding(r) \/ Bucket(r) \/ LimitReturn(r)
SpecKeys == InitKeys /\ [][NextKeys]_vars

\* requests on two routes under any set of route-scoped and global whitelist rules
InitUnion ==
    \E rules \in SUBSET {RuleIp, RuleKey, RuleJwt, RuleCustom} :
        Serving([StoreWith({}, rules, 0) EXCEPT
                    !.routes = @ \cup {x \in RouteCatalog : x.method = "POST"}],
                FALSE, MaxReloadRequests,
                Env({Direct, Proxied, Keyed, Bearer, Post, KeyedPost}, {TRUE}, {TRUE}, 0))
NextUnion == Pipeline(1)
SpecUnion == InitUnion /\ [][NextUnion]_vars

\* requests from several addresses under one ip rule
InitIpRule ==
    \E rule \in {RuleIp, RuleCidr, RuleTwo, RuleString, RuleNoIps} :
        Serving(StoreWith({}, {rule}, 0), FALSE, MaxReloadRequests,
                Env({Direct, Proxied, AtBase}, {TRUE}, {TRUE}, 0))
NextIpRule == Pipeline(1)
SpecIpRule == InitIpRule /\ [][NextIpRule]_vars

\* the gateway while an operator creates a service and then a route to it
InitCreate ==
    Serving(StoreWith({}, {}, 0), FALSE, MaxReloadRequests,
            Env({Direct, Stray}, {TRUE}, {TRUE}, 0))
NextCreate == Loader \/ AdminCreateService \/ AdminCreateRoute \/ Pipeline(1)
SpecCreate == InitCreate /\ [][NextCreate]_vars

\* requests served one after another under two sliding-window limits per ip on route R1
InitShared ==
    Serving(StoreWith({LimSliding, LimPair}, {}, 0), TRUE, MaxReloadRequests,
            Env({Direct, Proxied}, {TRUE}, {TRUE}, MaxClock))
NextShared == Tick \/ Pipeline(1) \/ Sliding(1) \/ LimitReturn(1)
SpecShared == InitShared /\ [][NextShared]_vars

\* concurrent requests, forwarded and direct, under one ip rule
InitForwarded ==
    \E rule \in {RuleIp, RuleTwo} :
        Serving(StoreWith({}, {rule}, 0), FALSE, MaxReloadRequests,
                Env({Direct, Proxied, ProxiedElsewhere, Relayed, FromOffice},
                    {TRUE}, {TRUE}, 0))
NextForwarded == \E r \in Reqs : Pipeline(r)
SpecForwarded == InitForwarded /\ [][NextForwarded]_vars

\* requests served one after another under one fast token-bucket limit
InitReset ==
    Serving(StoreWith({LimFast}, {}, 0), TRUE, MaxSeqRequests,
            Env({Direct}, {TRUE}, {TRUE}, MaxClock))
NextReset == Tick \/ Pipeline(1) \/ Bucket(1) \/ LimitReturn(1)
SpecReset == InitReset /\ [][NextReset]_vars

\* concurrent requests under one token-bucket limit
InitBucket ==
    Serving(StoreWith({LimBucketSmall}, {}, 0), TRUE, MaxRequests,
            Env({Direct, Stray}, BOOLEAN, {TRUE}, MaxTime))
NextBucket == Tick \/ KvExpire \/ \E r \in Reqs : Pipeline(r) \/ Bucket(r) \/ LimitReturn(r)
SpecBucket == InitBucket /\ [][NextBucket]_vars

\* requests served one after another under one token-bucket limit
InitBucketSeq ==
    Serving(StoreWith({LimBucket}, {}, 0), TRUE, MaxSeqRequests,
            Env({Direct, Stray}, BOOLEAN, {TRUE}, MaxTime))
NextBucketSeq == Tick \/ KvExpire \/ Pipeline(1) \/ Bucket(1) \/ LimitReturn(1)
SpecBucketSeq == InitBucketSeq /\ [][NextBucketSeq]_vars

\* a gateway from its start: main runs load_config, then the watcher reloads while the
\* admin plane writes the store and requests are served; the store holds no limit
\* a gateway that starts: main is about to run its first load_config
Booting(st, e) ==
    /\ env = e
    /\ store = st
    /\ config = EmptyConfig
    /\ published = <<EmptyConfig>>
    /\ loader = InitLoader
    /\ service_health = <<>>
    /\ prober = IdleProber
    /\ now = 0
    /\ kv = <<>>
    /\ req = [r \in Reqs |-> IdleReq]
    /\ lim = [r \in Reqs |-> IdleLim]
    /\ rate_limiter = TRUE
    /\ audit = <<>>
    /\ writer = IdleWriter
    /\ meta = IdleMeta
    /\ admits = EmptyBag
    /\ nreq = MaxReloadRequests

\* the gateway starts with the store's routes, services and an address rule
Starting(writes) ==
    Booting(StoreWith({}, {RuleIp}, writes), Env({Proxied}, {TRUE}, {TRUE}, MaxTime))

\* the gateway starts with a rule that denies one of two clients; its loops and the
\* audit worker run, and requests come once it serves
InitStartup ==
    Booting(StoreWith({}, {RuleIp}, 0), Env({Direct, Proxied}, {TRUE}, {TRUE}, 0))
NextStartup == Loader \/ Prober \/ Writer \/ Pipeline(1)
SpecStartup == InitStartup /\ [][NextStartup]_vars

\* a serving gateway that is told to shut down at some point, its loops scheduled
\* for as long as they have something to do
InitShutdown ==
    Serving(StoreWith({}, {RuleIp}, 0), FALSE, MaxReloadRequests,
            Env({Direct, Proxied}, {TRUE}, {TRUE}, 0))
NextShutdown == SignalShutdown \/ Loader \/ Prober \/ Writer \/ Pipeline(1)
SpecShutdown ==
    /\ InitShutdown /\ [][NextShutdown]_vars
    /\ WF_vars(Loader) /\ WF_vars(Prober) /\ WF_vars(Writer) /\ WF_vars(Pipeline(1))

\* calls of MetaResponse::new
InitMeta == Serving(StoreWith({}, {}, 0), FALSE, 0, Env({Direct}, {TRUE}, {TRUE}, 0))
NextMeta == MetaCall \/ MetaNew
SpecMeta == InitMeta /\ [][NextMeta]_vars

\* the gateway starts on a store with more rows than a page holds (the page is
\* scaled down with the tables), and reloads
InitPaging ==
    \E routes \in SUBSET RouteCatalog, services \in ServiceTables :
        Booting([StoreWith({}, {}, 0) EXCEPT !.routes = InitRoutes \cup routes,
                                              !.services = services],
                [Env({Direct}, {TRUE}, {TRUE}, 0) EXCEPT !.page_size = SmallPage])
NextPaging == Loader
SpecPaging == InitPaging /\ [][NextPaging]_vars
InitReload == Starting(MaxReloadWrites)
NextReload == Loader \/ Admin \/ Pipeline(1)
SpecReload == InitReload /\ [][NextReload]_vars

\* the same gateway with the health checker as the reader of the snapshot
InitProbe == Starting(MaxWrites)
NextProbe == Loader \/ Admin \/ Prober
SpecProbe == InitProbe /\ [][NextProbe]_vars

\* the gateway from its start with the health checker, while services get a health
\* check URL or lose it
InitHealth == Starting(MaxWrites)
NextHealth == Loader \/ Prober \/ AdminSetHealthUrl \/ StoreClearHealthUrl
SpecHealth == InitHealth /\ [][NextHealth]_vars

\* a serving gateway whose health checker runs every cycle to its end, and a backend
\* whose health endpoint fails until it recovers
InitRecovery ==
    Serving(StoreWith({}, {}, 0), TRUE, MaxRequests, Env({Direct}, {TRUE}, {TRUE}, 0))
NextRecovery == Prober \/ Recover \/ \E r \in Reqs : Pipeline(r)
SpecRecovery == InitRecovery /\ [][NextRecovery]_vars /\ WF_vars(Prober)

\* a serving gateway with a rule that denies requests of one client and lets those
\* of another pass, the audit worker saving what they log, with inserts that can
\* fail, until it ends
InitAudit ==
    Serving(StoreWith({}, {RuleIp}, 0), FALSE, MaxRequests,
            Env({Direct, Proxied}, {TRUE}, BOOLEAN, 0))
NextAudit == Writer \/ WriterStop \/ \E r \in Reqs : Pipeline(r)
SpecAudit == InitAudit /\ [][NextAudit]_vars /\ WF_vars(Writer)

\* a serving gateway without limiter whose requests go to a backend that answers
\* late or never, while time passes
InitUpstream ==
    Serving(StoreWith({}, {}, 0), FALSE, MaxRequests,
            Env({Direct, Secure}, {TRUE}, {TRUE}, MaxTime))
NextUpstream ==
    \/ Tick
    \/ \E r \in Reqs : Pipeline(r) \/ UpstreamPeer(r) \/ UpstreamResponse(r)
SpecUpstream == InitUpstream /\ [][NextUpstream]_vars

\* a serving gateway with any table of routes and of services, neither changing, the
\* loader reloading, and clients whose requests differ in method, path and query
InitRouting ==
    \E routes \in SUBSET RouteCatalog, services \in ServiceTables :
        Serving([StoreWith({}, {}, 0) EXCEPT !.routes = InitRoutes \cup routes,
                                              !.services = services],
                TRUE, MaxReloadRequests,
                Env({Direct, Stray, Lower, Post, AtPrefix, Glued, Queried, Secure},
                    {TRUE}, {TRUE}, 0))
NextRouting == Loader \/ Pipeline(1)
SpecRouting == InitRouting /\ [][NextRouting]_vars

\* a serving gateway with any set of whitelist rules, and clients that differ in
\* address, API key and Authorization header
InitWhitelist ==
    \E rules \in SUBSET {RuleIp, RuleKey, RuleJwt, RuleCustom} :
        Serving(StoreWith({}, rules, 0), TRUE, MaxRequests,
                Env({Direct, Proxied, Keyed, BadKey, Bearer, BadBearer, Basic},
                    {TRUE}, BOOLEAN, 0))
NextWhitelist == Pipeline(1)
SpecWhitelist == InitWhitelist /\ [][NextWhitelist]_vars

\* a serving gateway with a limit per client address on route R1 and a global limit,
\* and clients from two addresses
InitLimits ==
    Serving(StoreWith({LimSliding, LimTiny}, {}, 0), TRUE, MaxRequests,
            Env({Direct, Proxied}, BOOLEAN, BOOLEAN, MaxClock))
NextLimits == Tick \/ Pipeline(1) \/ Sliding(1) \/ Bucket(1) \/ LimitReturn(1)
SpecLimits == InitLimits /\ [][NextLimits]_vars

\* a serving gateway with a whitelist rule, a sliding-window limit and a token-bucket
\* limit on route R1, with or without a limiter, Redis commands and response writes
\* that can fail, and the health checker; no TTL runs out before the last clock value
Init ==
    \E limiter \in BOOLEAN :
        Serving(StoreWith({LimSliding, LimBucket}, {RuleIp}, 0), limiter, MaxRequests,
                Env({Direct, Proxied, Stray}, BOOLEAN, BOOLEAN, MaxClock - 1))
Next ==
    \/ Tick
    \/ Prober
    \/ Pipeline(1) \/ Sliding(1) \/ Bucket(1) \/ LimitReturn(1)
Spec == Init /\ [][Next]_vars

----------------------------------------------------------------------------
(* Properties of the rate limiter *)

\* the calls on a key that returned allowed = true with a timestamp in lo..hi
AdmitsIn(key, lo, hi) ==
    LET hits == {a \in BagToSet(admits) : a[1] = key /\ a[2] \in lo..hi}
    IN  BagCardinality([a \in hits |-> CopiesIn(a, admits)])

\* the calls on a key that returned allowed = true at a time in lo..hi
AdmittedIn(key, lo, hi) ==
    LET hits == {a \in BagToSet(admits) : a[1] = key /\ a[3] \in lo..hi}
    IN  BagCardinality([a \in hits |-> CopiesIn(a, admits)])

\* the key of the limit that governs the requests of client Direct on route R1
KeyOf(limit) ==
    RateLimitKey([id |-> "R1"], limit,
                 [IdleReq EXCEPT !.xff = Direct.xff, !.peer = Direct.peer])

\* C1: for the key of one sliding-window limit, the calls of check_rate_limit that
\* returned allowed = true with timestamps inside any interval of window_seconds
\* seconds number at most max_requests, whatever the interleaving of the calls.
C1_SlidingWindowBound ==
    \A a \in 0..MaxTime :
        AdmitsIn(SlidingKey(KeyOf(LimSliding)), a, a + LimSliding.window_seconds - 1)
            <= LimSliding.max_requests

\* C2: for the key of one token-bucket limit, the calls of check_rate_limit_with_burst
\* that return allowed = true with no time elapsing between them number at most
\* max_requests + burst_size, whatever the interleaving of the calls.
C2_BucketBurstBound ==
    now = 0 =>
        AdmitsIn(BucketKey(KeyOf(LimBucketSmall)), 0, 0)
            <= LimBucketSmall.max_requests + Unwrap(LimBucketSmall.burst_size)

\* C3: for the key of one token-bucket limit and requests served one after another,
\* the number admitted in any interval of T seconds is at most
\* (max_requests + burst_size) + T * max_requests / window_seconds, the expiry of the
\* stored hash included (both sides multiplied by window_seconds).  Only calls that
\* return within the second in which they read the clock are counted on.
C3_BucketRateBound ==
    (\A x \in BagToSet(admits) : x[2] = x[3]) =>
    \A a \in 0..MaxTime : \A b \in a..MaxTime :
        AdmittedIn(BucketKey(KeyOf(LimBucket)), a, b) * LimBucket.window_seconds
            <= (LimBucket.max_requests + Unwrap(LimBucket.burst_size))
                   * LimBucket.window_seconds
               + (b - a + 1) * LimBucket.max_requests

----------------------------------------------------------------------------
(* Properties of the snapshot *)

\* C4: within the handling of one request, find_route, get_service,
\* get_whitelist_rules and get_rate_limits all read the same published snapshot,
\* whatever the interleaving of a publication with the request's steps.
C4_OneSnapshotPerRequest ==
    \A r \in Reqs : \A i, j \in DOMAIN req[r].seen : req[r].seen[i] = req[r].seen[j]

\* the handles readers hold: the cell's content and the one check_all_services iterates
Handles == {config} \cup (IF prober.pc = "probing" THEN {prober.cfg} ELSE {})

\* the four fields of a snapshot were read by the same load_config run
OneRun(h) ==
    /\ h.services.run = h.routes.run
    /\ h.routes.run = h.rate_limits.run
    /\ h.rate_limits.run = h.whitelist_rules.run

\* the ids of the routes of a snapshot
RouteIdsOf(h) == {h.routes.rows[i].id : i \in DOMAIN h.routes.rows}

\* C5: every handle get_config returned is one published snapshot in full: it equals
\* a snapshot some load_config run published, and its services, routes, rate limits
\* and whitelist rules were all read by that same run.
C5_SnapshotInFull ==
    \A h \in Handles :
        /\ \E k \in DOMAIN published : h = published[k]
        /\ OneRun(h)

\* a reload replaced route R1 by route R2 while the health checker was iterating: the
\* checker holds the snapshot with R1 only, the cell the snapshot with R2 only
C5_Witness ==
    /\ prober.pc = "probing"
    /\ RouteIdsOf(prober.cfg) = {"R1"}
    /\ RouteIdsOf(config) = {"R2"}
    /\ prober.cfg = published[Len(published) - 1]
    /\ config = published[Len(published)]

\* the backend service a snapshot maps a request to
BackendOf(h, q) ==
    LET route == find_route(h, q.path, q.method)
    IN  IF IsSome(route) THEN Some(Unwrap(route).backend_service_id) ELSE None

\* C6: a request that goes upstream is dispatched to the service that the snapshot
\* current at its route lookup maps its path to, and that snapshot is no older than
\* the one published last when the request arrived: after the publication of
\* /a -> S2 no request that arrives is dispatched to S1, before it requests go to S1.
C6_ReloadVisible ==
    \A r \in Reqs :
        req[r].forwarded =>
            /\ req[r].start <= req[r].routed
            /\ BackendOf(published[req[r].routed], req[r])
                   = Some(Unwrap(req[r].service).id)

\* a request that arrived after the publication that moved /a from S1 to S2 went to S2
C6_Witness ==
    \E r \in Reqs :
        /\ req[r].forwarded
        /\ req[r].start >= 3
        /\ Unwrap(req[r].service).id = "S2"
        /\ BackendOf(published[req[r].start - 1], req[r]) = Some("S1")

\* a step in which a store read of load_config returns Err
ReadFails ==
    /\ loader.pc \in {"services", "routes", "rate_limits", "whitelist"}
    /\ loader'.last = "err"
    /\ loader'.pc \in {"tick", "exit"}

\* C7: a load_config run in which a store read fails leaves the published snapshot
\* as it was, and the reload watcher goes on to wait for its next tick.
C7_FailedReloadKeepsSnapshot ==
    [][ReadFails =>
          /\ config' = config
          /\ published' = published
          /\ loader.phase = "watch" => loader'.pc = "tick" /\ loader'.phase = "watch"]_vars

\* a reload has failed, the snapshot of an earlier run is in place and a request has
\* been served from it
C7_Witness ==
    /\ loader.phase = "watch"
    /\ loader.pc = "tick"
    /\ loader.last = "err"
    /\ RunOf(config) < loader.run
    /\ \E r \in Reqs : req[r].forwarded /\ req[r].seen[1] = RunOf(config)

----------------------------------------------------------------------------
(* Properties of request_filter *)

\* C8: a request has at most one terminal outcome: at most one short-circuit response
\* is written, a request with a short-circuit response is never forwarded upstream,
\* a forwarded request has no response written and no error, and nothing is decided
\* before request_filter returns.
C8_OneOutcome ==
    \A r \in Reqs :
        /\ Len(req[r].responses) <= 1
        /\ req[r].forwarded => req[r].responses = <<>> /\ ~req[r].failed
        /\ req[r].forwarded \/ req[r].failed => req[r].pc = "done"
        /\ req[r].pc = "done" =>
               req[r].forwarded \/ req[r].failed \/ req[r].responses # <<>>

\* a request was answered 429 and not forwarded
C8_Witness ==
    \E r \in Reqs :
        req[r].pc = "done" /\ req[r].responses = <<429>> /\ ~req[r].forwarded

\* C9: the stages run in the order route lookup, whitelist, health gate, rate limit:
\* a request answered 404, 403 or 503 has made no limiter call, a request the
\* whitelist denied is neither answered 503 nor forwarded, and the later stages are
\* reached only with a route, a service and the whitelist's permission.
C9_StageOrder ==
    \A r \in Reqs :
        /\ (\E i \in DOMAIN req[r].responses : req[r].responses[i] \in {404, 403, 503})
               => req[r].checks = 0 /\ lim[r] = IdleLim
        /\ req[r].whitelist = "denied"
               => /\ req[r].pc = "done"
                  /\ ~req[r].forwarded
                  /\ \A i \in DOMAIN req[r].responses : req[r].responses[i] = 403
        /\ req[r].whitelist # "none" => IsSome(req[r].route) /\ IsSome(req[r].service)
        /\ req[r].pc \in {"health", "limits", "check"} \/ req[r].forwarded
               \/ req[r].checks > 0
               => req[r].whitelist = "allowed"

\* a request that fails both the whitelist and the health gate was answered 403
C9_Witness ==
    \E r \in Reqs :
        /\ req[r].responses = <<403>>
        /\ req[r].whitelist = "denied"
        /\ ~is_healthy(Unwrap(req[r].service).id)

\* C10: a request whose limiter call returned an error is not forwarded upstream: it
\* ends with the error, no response written and no further limiter call.
C10_LimiterFailsClosed ==
    \A r \in Reqs :
        req[r].limiter_err =>
            /\ req[r].pc = "done"
            /\ req[r].failed
            /\ ~req[r].forwarded
            /\ req[r].responses = <<>>
            /\ lim[r] = IdleLim

\* a request failed on a limiter error after an earlier limit had admitted it
C10_Witness ==
    \E r \in Reqs :
        req[r].limiter_err /\ req[r].failed /\ req[r].checks = 2

----------------------------------------------------------------------------
(* Properties of the policies *)

\* the whitelist rules that apply to a request with a route
RulesOf(q) == get_whitelist_rules(config, Unwrap(q.route).id)

\* C11: the whitelist allows a request if and only if no rule applies to its route or
\* at least one of the rules that apply matches it, wherever that rule stands in the
\* list; a request the whitelist denies is answered 403 (or fails on the write of
\* that response) and is not forwarded.
C11_WhitelistOr ==
    \A r \in Reqs :
        req[r].whitelist # "none" =>
            /\ req[r].whitelist = "allowed"
                  <=> \/ RulesOf(req[r]) = <<>>
                      \/ \E i \in DOMAIN RulesOf(req[r]) :
                            rule_allows(RulesOf(req[r])[i], req[r], ClientIp(req[r]))
            /\ req[r].whitelist = "denied"
                  => /\ ~req[r].forwarded
                     /\ req[r].responses = <<403>> \/ req[r].failed

\* a request was allowed by the rule of lowest priority after the rules before it
\* in the list did not match, and went upstream
C11_Witness ==
    \E r \in Reqs :
        /\ req[r].forwarded
        /\ Len(RulesOf(req[r])) = 4
        /\ rule_allows(RulesOf(req[r])[4], req[r], ClientIp(req[r]))
        /\ \A i \in 1..3 : ~rule_allows(RulesOf(req[r])[i], req[r], ClientIp(req[r]))

\* the active limits of the store that apply to a route
ApplicableLimits(route_id) ==
    {l \in store.rate_limits :
        l.is_active /\ l.api_route_id \in {Some(route_id), None}}

\* C12: with the limiter configured, the limits of a request are the route-scoped
\* limits followed by the global ones; they are checked in that order; the request
\* is forwarded only if every one of them admitted it; the first denial ends the
\* request: no later limit is checked, and the response is a 429 that carries that
\* limit's max_requests, a remaining of 0, that check's reset time and that limit's
\* window_seconds.
C12_LimitsInOrder ==
    \A r \in Reqs :
        LET q == req[r]
            n == Len(q.results)
        IN  rate_limiter /\ (q.checks > 0 \/ q.forwarded) =>
              /\ {q.limits[i] : i \in DOMAIN q.limits}
                    = ApplicableLimits(Unwrap(q.route).id)
              /\ \A i, j \in DOMAIN q.limits :
                    q.limits[i].api_route_id # None /\ q.limits[j].api_route_id = None
                        => i < j
              /\ n <= q.checks /\ q.checks <= n + 1 /\ q.checks <= Len(q.limits)
              /\ q.forwarded =>
                    n = Len(q.limits) /\ \A i \in 1..n : q.results[i].ok /\ q.results[i].allowed
              /\ \A i \in 1..n :
                    q.results[i].ok /\ ~q.results[i].allowed =>
                        /\ i = n /\ q.checks = n /\ q.pc = "done" /\ ~q.forwarded
                        /\ \A k \in 1..(i - 1) : q.results[k].ok /\ q.results[k].allowed
                        /\ q.responses = <<429>> \/ q.failed
                        /\ q.headers = Some([x_ratelimit_limit |-> q.limits[i].max_requests,
                                             x_ratelimit_remaining |-> 0,
                                             x_ratelimit_reset |-> q.results[i].reset,
                                             retry_after |-> q.limits[i].window_seconds])

\* the global limit denied a request that the route's limit had admitted
C12_Witness ==
    \E r \in Reqs :
        /\ req[r].responses = <<429>>
        /\ Len(req[r].results) = 2
        /\ req[r].results[1].allowed
        /\ req[r].limits[2] = LimTiny
        /\ Unwrap(req[r].headers).retry_after = LimTiny.window_seconds

----------------------------------------------------------------------------
(* Properties of the health checker *)

\* C13: in every reachable state, is_healthy(s) is true for every service s whose
\* entry in the current snapshot has no health_check_url.
C13_NoUrlHealthy ==
    \A id \in DOMAIN config.services.rows :
        config.services.rows[id].health_check_url = None => is_healthy(id)

\* C14: a request that reached the health gate is answered 503 (or fails on the write
\* of that response) and goes no further if and only if the status of its backend
\* service was Unhealthy when the gate looked; with Healthy or Unknown it proceeds
\* to the rate-limit stage.
C14_HealthGate ==
    \A r \in Reqs :
        LET q == req[r]
        IN  /\ q.gate = UnhealthyStatus =>
                  /\ q.pc = "done" /\ ~q.forwarded /\ q.checks = 0
                  /\ q.responses = <<503>> \/ q.failed
            /\ q.gate \in {HealthyStatus, UnknownStatus} =>
                  /\ \A i \in DOMAIN q.responses : q.responses[i] # 503
                  /\ q.pc = "limits" \/ q.checks > 0 \/ q.forwarded
            /\ (\E i \in DOMAIN q.responses : q.responses[i] = 503) =>
                  q.gate = UnhealthyStatus
            /\ q.pc \in {"limits", "check"} \/ q.forwarded \/ q.checks > 0 =>
                  q.gate \in {HealthyStatus, UnknownStatus}

\* a request to a service that was never probed went upstream
C14_Witness ==
    \E r \in Reqs : req[r].gate = UnknownStatus /\ req[r].forwarded

\* C15: the status of a probed service is Unhealthy exactly when its last probe was
\* not answered 2xx, so that requests to it are answered 503 from a failed probe
\* until a later probe succeeds, and pass the health gate after a probe that
\* succeeded; and with a probe loop that keeps running, a service of the snapshot
\* whose health endpoint answers 2xx from some point on is eventually, and from then
\* on, reported healthy.
C15_HealthRecovery ==
    /\ [](\A id \in DOMAIN service_health :
             /\ id \in DOMAIN prober.answer
             /\ get_status(id) = IF prober.answer[id] THEN HealthyStatus
                                  ELSE UnhealthyStatus
             /\ is_healthy(id) <=> prober.answer[id])
    /\ [](\A r \in Reqs :
             /\ req[r].gate = UnhealthyStatus =>
                   ~req[r].forwarded /\ req[r].responses = <<503>>
             /\ req[r].gate = HealthyStatus => req[r].responses = <<>>)
    /\ \A id \in ServiceIds :
          (id \in Probed(config) /\ id \in env.recovered)
              ~> [](get_status(id) = HealthyStatus)

\* a request was answered 503 after a failed probe, and a later probe of the
\* recovered service has recorded Healthy
C15_Witness ==
    \E r \in Reqs :
        /\ req[r].responses = <<503>>
        /\ Unwrap(req[r].service).id \in env.recovered
        /\ get_status(Unwrap(req[r].service).id) = HealthyStatus

\* the routes of a snapshot that match a request: the method, upper-cased, is the
\* route's and the route's pattern is a prefix of the path
Candidates(cfg, q) ==
    {cfg.routes.rows[i] : i \in {j \in 1..Len(cfg.routes.rows) :
        /\ cfg.routes.rows[j].method = ToUpper(q.method)
        /\ StartsWith(q.path, cfg.routes.rows[j].path_pattern)}}

\* the requests whose route has been looked up
Routed == {r \in Reqs : req[r].routed > 0}

\* C16: the route find_route returns is a route of the snapshot whose method is the
\* upper-cased request method and whose pattern is a prefix of the path, no other
\* such route has a strictly higher priority, and it returns none exactly when no
\* route of the snapshot satisfies the two conditions.
C16_FindRoute ==
    \A r \in Routed :
        LET cand == Candidates(published[req[r].routed], req[r])
        IN  /\ IsSome(req[r].route) =>
                  /\ Unwrap(req[r].route) \in cand
                  /\ \A c \in cand : c.priority <= Unwrap(req[r].route).priority
            /\ req[r].route = None <=> cand = {}

\* a lower-case method was matched, and a candidate of lower priority was passed over
C16_Witness ==
    \E r \in Routed :
        /\ IsSome(req[r].route)
        /\ req[r].method = "get"
        /\ \E c \in Candidates(published[req[r].routed], req[r]) :
              c.priority < Unwrap(req[r].route).priority

\* the candidates of a request that share the highest priority
Tied(cfg, q) ==
    {c \in Candidates(cfg, q) : \A d \in Candidates(cfg, q) : d.priority <= c.priority}

PublishedBy(run) == {published[i] : i \in {j \in 1..Len(published) : published[j].services.run = run}}

\* the requests that route_request has answered: with a pair, or with none
Resolved == {r \in Routed : req[r].pc \notin {"route", "service"}}

\* C18: a request goes on with a route and a service only if the service is the
\* route's backend_service_id, is in the snapshot and is active; when the backend
\* service of the route that find_route selected is not in the snapshot or is
\* inactive, the request is answered 404 with the body 'Not Found' and goes nowhere,
\* whatever other candidate routes there are.
C18_NoFallback ==
    \A r \in Resolved :
        LET q == req[r]
        IN  /\ IsSome(q.service) =>
                  /\ IsSome(q.route)
                  /\ Unwrap(q.service).id = Unwrap(q.route).backend_service_id
                  /\ Unwrap(q.service).is_active
                  /\ \E cfg \in PublishedBy(q.seen[2]) :
                        /\ Unwrap(q.service).id \in DOMAIN cfg.services.rows
                        /\ cfg.services.rows[Unwrap(q.service).id] = Unwrap(q.service)
            /\ q.service = None =>
                  /\ q.pc = "done"
                  /\ q.responses = <<404>>
                  /\ q.body = Some("Not Found")
                  /\ ~q.forwarded
                  /\ q.route = find_route(published[q.routed], q.path, q.method)
            /\ (IsSome(q.route) /\ \A cfg \in PublishedBy(q.seen[2]) :
                     \/ Unwrap(q.route).backend_service_id \notin DOMAIN cfg.services.rows
                     \/ ~cfg.services.rows[Unwrap(q.route).backend_service_id].is_active)
                  => q.service = None

\* a request was answered 404 because the backend of its route is not in the
\* snapshot, although another candidate route has a backend that is
C18_Witness ==
    \E r \in Resolved :
        /\ IsSome(req[r].route)
        /\ req[r].service = None
        /\ req[r].responses = <<404>>
        /\ \E c \in Candidates(published[req[r].routed], req[r]) :
              c.backend_service_id \in DOMAIN published[req[r].routed].services.rows

\* the requests that went upstream
Forwarded == {r \in Reqs : req[r].forwarded}

\* what follows the path in the upstream URI for the query string of a request
QuerySuffix(q) == IF IsSome(q.query) THEN <<"?">> \o Unwrap(q.query) ELSE <<>>

\* C19: for a request path P that begins with the pattern of its route, the upstream
\* path is, when the route strips the prefix, P without the pattern, with '/' put in
\* front when what remains is empty or does not begin with '/', so that it begins
\* with '/'; it is P when the route does not strip; and in both cases the query
\* string of the request follows it unchanged after '?'.
C19_PathTransform ==
    \A r \in Forwarded :
        LET q == req[r]
            route == Unwrap(q.route)
            P == q.path
            rest == SubSeq(P, Len(route.path_pattern) + 1, Len(P))
        IN  /\ route.path_pattern \o rest = P
            /\ route.strip_path_prefix =>
                  /\ q.upstream_path # <<>> /\ q.upstream_path[1] = "/"
                  /\ q.upstream_path =
                        (IF rest = <<>> \/ rest[1] # "/" THEN <<"/">> \o rest ELSE rest)
                            \o QuerySuffix(q)
            /\ ~route.strip_path_prefix => q.upstream_path = P \o QuerySuffix(q)

\* a request with a query string went upstream on a route that strips its pattern,
\* which is the whole path or is not followed by '/'
C19_Witness ==
    \E r \in Forwarded :
        LET route == Unwrap(req[r].route)
            rest == SubSeq(req[r].path, Len(route.path_pattern) + 1, Len(req[r].path))
        IN  /\ route.strip_path_prefix
            /\ IsSome(req[r].query)
            /\ rest = <<>> \/ rest[1] # "/"

\* the host of a base_url as it stands in the URL: with the port when one is written
Authority(base_url) ==
    IF IsSome(base_url.port) THEN <<base_url.host, ":", Unwrap(base_url.port)>>
    ELSE <<base_url.host>>

\* C20: the Host header of a request that goes upstream is the Host the client sent
\* when the route preserves the host header, and otherwise the host of the service's
\* base_url with its explicit port (svc:9000 for http://svc:9000).
C20_HostPolicy ==
    \A r \in Forwarded :
        LET q == req[r]
        IN  q.upstream_host_header =
                IF Unwrap(q.route).preserve_host_header THEN <<q.host>>
                ELSE Authority(Unwrap(q.service).base_url)

\* C21: every request that goes upstream carries X-Forwarded-Proto, and its value is
\* the scheme the client used: https exactly when the request arrived on the TLS
\* listener, http otherwise, whatever the scheme of the backend's base_url.
C21_ForwardedProto ==
    \A r \in Forwarded :
        req[r].x_forwarded_proto = Some(IF req[r].tls THEN "https" ELSE "http")

----------------------------------------------------------------------------
(* Properties of the upstream exchange *)

\* the deadline of a request: the timeout_ms of its route, else of its service
DeadlineOf(q) ==
    IF IsSome(Unwrap(q.route).timeout_ms) THEN Unwrap(q.route).timeout_ms
    ELSE Unwrap(q.service).timeout_ms

\* C22: a request that went upstream has as deadline the timeout_ms of its route, or
\* of its service when the route has none: no request still waits for its backend
\* once the deadline has passed, it is cancelled and answered with a 5xx status.
C22_UpstreamDeadline ==
    \A r \in Reqs :
        (req[r].upstream # "none" /\ IsSome(DeadlineOf(req[r]))
            /\ now > req[r].sent + Unwrap(DeadlineOf(req[r])))
          => /\ req[r].upstream # "waiting"
             /\ req[r].responses # <<>>

----------------------------------------------------------------------------
(* Properties of the audit sink *)

\* C23: AuditLogger::log neither blocks nor fails its caller, whether the worker is
\* waiting, saving, failing or has ended: the stage that logs can always take its
\* step, and a denied request is answered 403 all the same; an insert that fails
\* drops that one record and the worker goes back to receiving.
C23_LogNeverBlocks ==
    /\ [](\A r \in Reqs : req[r].pc = "whitelist" => ENABLED Whitelist(r))
    /\ [](\A r \in Reqs :
             (req[r].whitelist = "denied" /\ ~req[r].failed) =>
                 /\ req[r].responses = <<403>>
                 /\ Len(req[r].logged) = 1)
    /\ [][writer'.dropped # writer.dropped =>
             /\ writer'.pc = "recv"
             /\ writer'.dropped = Append(writer.dropped, writer.taken)
             /\ writer'.audit_logs = writer.audit_logs
             /\ writer'.taken = writer.taken]_vars

\* an insert failed, the worker ended later, and two requests were denied and
\* answered 403, the second one logging into a channel without receiver
C23_Witness ==
    /\ writer.pc = "stopped"
    /\ writer.dropped = <<1>>
    /\ Len(audit) = 1
    /\ \A r \in Reqs : req[r].responses = <<403>> /\ Len(req[r].logged) = 1

\* the positions in the channel of the records that were inserted
PersistedIdx == {writer.audit_logs[i].idx : i \in 1..Len(writer.audit_logs)}

\* the positions in the channel of the records whose insert failed
DroppedIdx == {writer.dropped[i] : i \in 1..Len(writer.dropped)}

\* C24: the worker takes the records in the order they were sent and tries to save
\* each one once: the k-th record it takes is the k-th that was sent, a row of the
\* table is the record of its position, no record has two rows, and none is both
\* saved and dropped; with a worker that keeps being scheduled, every record sent
\* is in the end saved or dropped, unless the worker has ended.
C24_AuditDelivery ==
    /\ [](/\ writer.taken = Len(writer.attempts)
          /\ writer.taken <= Len(audit)
          /\ \A k \in 1..Len(writer.attempts) : writer.attempts[k] = k
          /\ \A i \in 1..Len(writer.audit_logs) :
                /\ writer.audit_logs[i].idx \in 1..writer.taken
                /\ writer.audit_logs[i].log = audit[writer.audit_logs[i].idx]
                /\ \A j \in 1..Len(writer.audit_logs) :
                      writer.audit_logs[j].idx = writer.audit_logs[i].idx => i = j
          /\ PersistedIdx \cap DroppedIdx = {}
          /\ Cardinality(DroppedIdx) = Len(writer.dropped))
    /\ \A k \in 1..MaxRequests :
          (Len(audit) >= k)
              ~> (writer.pc = "stopped" \/ k \in PersistedIdx \cup DroppedIdx)

\* the first record sent was dropped after a failed insert, the second was saved
\* after it, and the worker is still running
C24_Witness ==
    /\ writer.pc = "recv"
    /\ writer.dropped = <<1>>
    /\ PersistedIdx = {2}

\* C25: a request that was answered 403 by the whitelist, or 429 by a rate limit, has
\* passed exactly one record to the audit logger, of severity warning and with that
\* status code; a request that was answered 404 or 503, that met a limiter error or
\* that went upstream has passed none.
C25_AuditPerRequest ==
    \A r \in Reqs :
        LET q == req[r]
        IN  q.pc = "done" =>
              /\ q.responses \in {<<403>>, <<429>>} =>
                    /\ Len(q.logged) = 1
                    /\ q.logged[1].severity = "warning"
                    /\ q.logged[1].status_code = q.responses[1]
                    /\ q.logged[1].event_type =
                          IF q.responses = <<403>> THEN "WhitelistDenied"
                          ELSE "RateLimitExceeded"
              /\ (q.responses \in {<<404>>, <<503>>} \/ q.limiter_err \/ q.forwarded) =>
                    q.logged = <<>>

\* a request was answered 429 and its one record is in the channel
C25_Witness ==
    \E r \in Reqs :
        /\ req[r].pc = "done"
        /\ req[r].responses = <<429>>
        /\ Len(req[r].logged) = 1
        /\ \E i \in 1..Len(audit) : audit[i] = req[r].logged[1]

----------------------------------------------------------------------------
(* Properties of load_config *)

\* C26: a load that succeeded on a store that did not change has read the whole
\* active configuration: the routes of the snapshot are the store's active routes
\* and its services the store's active services, however many rows the tables have.
C26_FullActiveConfig ==
    config # EmptyConfig =>
        /\ {config.routes.rows[i] : i \in 1..Len(config.routes.rows)}
              = {r \in store.routes : r.is_active}
        /\ DOMAIN config.services.rows = {x.id : x \in {y \in store.services : y.is_active}}

----------------------------------------------------------------------------
(* Properties of main *)

\* the background tasks of the gateway
Tasks == {"audit", "reload", "health"}

\* C27: a request is handled only after the first load_config has succeeded and the
\* audit worker, the reload watcher and the health checker have been started, and it
\* never reads the empty initial snapshot; when the first load fails the gateway
\* ends without having served a request.
C27_StartupOrder ==
    /\ \A r \in Reqs :
          req[r].pc # "idle" =>
              /\ loader.phase = "watch"
              /\ Tasks \subseteq loader.spawned
              /\ Len(published) >= 2
              /\ req[r].start >= 2
              /\ \A i \in 1..Len(req[r].seen) : req[r].seen[i] >= 1
    /\ loader.phase = "initial" =>
          /\ loader.spawned = {"audit"}
          /\ prober = IdleProber
          /\ config = EmptyConfig
          /\ \A r \in Reqs : req[r] = IdleReq
    /\ loader.pc = "exit" => loader.phase = "initial" /\ nreq = MaxReloadRequests

\* a request was denied and its audit record saved, while the health checker probes
\* and the watcher has loaded again
C27_Witness ==
    /\ \E r \in Reqs : req[r].pc = "done" /\ req[r].responses = <<403>>
    /\ writer.audit_logs # <<>>
    /\ service_health # <<>>
    /\ loader.run > 1

\* C28: once shutdown is signalled the reload watcher, the health checker and the
\* audit worker each come to an end, with loops that keep being scheduled, and none
\* of them has ended while the listener still accepts requests.
C28_CooperativeTermination ==
    /\ env.shutdown ~> (loader.pc = "stopped")
    /\ env.shutdown ~> (prober.pc = "stopped")
    /\ env.shutdown ~> (writer.pc = "stopped")
    /\ []("stopped" \in {loader.pc, prober.pc, writer.pc} => env.shutdown)

----------------------------------------------------------------------------
(* Properties of MetaResponse *)

\* the least integer not below n / d
CeilDiv(n, d) == (n + d - 1) \div d

\* C29: MetaResponse::new returns the page, the limit and the total it was given,
\* and as total_pages the ceiling of total_data / limit when limit is positive and
\* that ceiling is a u32, and 0 when limit is 0.
C29_TotalPages ==
    meta.pc = "done" =>
        LET m == Unwrap(meta.result)
        IN  /\ m.page = Some(meta.page)
            /\ m.limit = Some(meta.limit)
            /\ m.total_data = Some(meta.total_data)
            /\ meta.limit = 0 => m.total_pages = Some(0)
            /\ (meta.limit > 0 /\ CeilDiv(meta.total_data, meta.limit) <= U32Max) =>
                  m.total_pages = Some(CeilDiv(meta.total_data, meta.limit))

----------------------------------------------------------------------------
(* Properties of one sliding-window check *)

\* the members a store k holds under a sliding-window key
MembersIn(k, key) == IF key \in DOMAIN k THEN k[key].members ELSE EmptyBag

\* the scores under a key that lie inside the window of the check f
InWindow(k, f) ==
    {s \in BagToSet(MembersIn(k, SlidingKey(f.key))) : s > f.now - f.window_seconds}

\* the number of members under a key that lie inside the window of the check f
CountInWindow(k, f) ==
    LET m == MembersIn(k, SlidingKey(f.key))
        S == InWindow(k, f)
    IN  BagCardinality([s \in S |-> m[s]])

\* the check of request 1 has just ended with the result of a denial or an admission
Ends(from) == lim[1].pc = from /\ lim'[1].pc = "ret" /\ Unwrap(lim'[1].result).ok

\* C30: a sliding-window check that runs alone counts the members scored after
\* now - window_seconds; with count >= max_requests it returns (false, 0, reset),
\* reset being the oldest remaining score plus window_seconds, which lies after now
\* and not after now + window_seconds, and it inserts nothing; otherwise it inserts
\* one member scored now, sets the TTL of the key to window_seconds + 60 and returns
\* (true, max_requests - count - 1, now + window_seconds), remaining being in
\* 0..max_requests-1.
C30_SlidingStep ==
    [][LET f == lim[1]
           key == SlidingKey(f.key)
           res == Unwrap(lim'[1].result)
       IN  /\ (f.pc = "zcard" /\ lim'[1].pc \in {"zrange", "zadd"}) =>
                  /\ lim'[1].count = CountInWindow(kv, f)
                  /\ lim'[1].count = BagCardinality(MembersIn(kv, key))
                  /\ lim'[1].pc = "zrange" <=> lim'[1].count >= f.max_requests
           /\ Ends("zrange") =>
                  /\ kv' = kv
                  /\ InWindow(kv, f) # {}
                  /\ res = LimOk(FALSE, 0,
                                 (CHOOSE s \in InWindow(kv, f) :
                                     \A t \in InWindow(kv, f) : s <= t) + f.window_seconds)
                  /\ f.now < res.reset /\ res.reset <= f.now + f.window_seconds
           /\ (f.pc = "zadd" /\ lim'[1].pc = "expire") =>
                  /\ MembersIn(kv', key) = MembersIn(kv, key) (+) SetToBag({f.now})
                  /\ BagCardinality(MembersIn(kv', key)) = f.count + 1
           /\ Ends("expire") =>
                  /\ MembersIn(kv', key) = MembersIn(kv, key)
                  /\ kv'[key].exp = Some(now + f.window_seconds + ExpireBuffer)
                  /\ res = LimOk(TRUE, f.max_requests - f.count - 1,
                                 f.now + f.window_seconds)
                  /\ res.remaining \in 0..(f.max_requests - 1)]_vars

\* a check has been denied with two admissions still inside the window, the older
\* of them made a second earlier
C30_Witness ==
    /\ lim[1].pc = "ret"
    /\ IsSome(lim[1].result)
    /\ Unwrap(lim[1].result) = LimOk(FALSE, 0, lim[1].now - 1 + lim[1].window_seconds)
    /\ BagCardinality(MembersIn(kv, SlidingKey(lim[1].key))) = 2

----------------------------------------------------------------------------
(* Properties of one token-bucket check *)

\* the tokens a check f has after the refill, computed in whole numbers from what the
\* store k holds under the key of f
WholeRefill(k, f) ==
    LET key == BucketKey(f.key)
        max_tokens == f.max_requests + f.burst_size
        present == key \in DOMAIN k
        tokens == IF present THEN k[key].tokens ELSE max_tokens
        last == IF present THEN k[key].last_refill ELSE f.now
        elapsed == IF f.now >= last THEN f.now - last ELSE 0
    IN  Min(max_tokens, tokens + (elapsed * f.max_requests) \div f.window_seconds)

\* C31: with checks run one after another, a token-bucket check starts an absent
\* key at (max_requests + burst_size, now), refills by
\* floor(elapsed * max_requests / window_seconds) up to max_tokens, admits when a
\* token is left, then storing (tokens - 1, now) with the stored count in
\* 0..max_tokens-1, and otherwise denies and stores nothing.
C31_BucketStep ==
    [][LET f == lim[1]
           key == BucketKey(f.key)
           current == WholeRefill(kv, f)
       IN  /\ (f.pc = "hget" /\ lim'[1].pc = "hset") =>
                  /\ current > 0
                  /\ lim'[1].tokens = current - 1
           /\ (f.pc = "hget" /\ lim'[1].pc = "ret" /\ Unwrap(lim'[1].result).ok) =>
                  /\ current <= 0
                  /\ Unwrap(lim'[1].result).allowed = FALSE
                  /\ kv' = kv
           /\ (f.pc = "hset" /\ lim'[1].pc = "ret" /\ Unwrap(lim'[1].result).ok) =>
                  /\ Unwrap(lim'[1].result).allowed
                  /\ kv'[key].tokens = f.tokens
                  /\ kv'[key].last_refill = f.now
                  /\ kv'[key].tokens \in 0..(f.max_requests + f.burst_size - 1)]_vars

----------------------------------------------------------------------------
(* Properties of the limiter's keys *)

\* the limit that request r is being checked against
LimitOf(r) == req[r].limits[req[r].li]

\* the identifier of a request under an identifier type: the first X-Forwarded-For
\* value or else the peer address, the X-API-Key header, the X-User-ID header, or
\* the word global
IdentifierOf(type, q) ==
    CASE type = "ip" ->
            IF q.xff # None THEN (IF Unwrap(q.xff) = <<>> THEN "" ELSE Unwrap(q.xff)[1])
            ELSE q.peer
      [] type = "api_key" -> IF q.api_key # None THEN Unwrap(q.api_key) ELSE "no-api-key"
      [] type = "user_id" -> IF q.user_id # None THEN Unwrap(q.user_id) ELSE "no-user-id"
      [] type = "global" -> "global"

\* request r is inside a call of the limiter
Checking(r) == req[r].pc = "check" /\ lim[r].pc # "idle"

\* C32: the key of a limit check is made of the id of the matched route, the
\* identifier type and the identifier of the request, so two requests checked
\* against the same limit use the same key exactly when they matched the same route
\* and yield the same identifier, for limits without a route too.
C32_CounterKeys ==
    /\ \A r \in Reqs :
          Checking(r) =>
              lim[r].key = <<Unwrap(req[r].route).id, LimitOf(r).identifier_type,
                             IdentifierOf(LimitOf(r).identifier_type, req[r])>>
    /\ \A r \in Reqs : \A t \in Reqs :
          (Checking(r) /\ Checking(t) /\ LimitOf(r).id = LimitOf(t).id) =>
              (lim[r].key = lim[t].key
                  <=> /\ Unwrap(req[r].route).id = Unwrap(req[t].route).id
                      /\ IdentifierOf(LimitOf(r).identifier_type, req[r])
                            = IdentifierOf(LimitOf(t).identifier_type, req[t]))
    /\ \A key \in DOMAIN kv :
          /\ key[1] \in {"ratelimit", "ratelimit:bucket"}
          /\ \E i \in DOMAIN config.routes.rows : key[2][1] = config.routes.rows[i].id

\* two requests that matched different routes are being checked against the same
\* limit without a route, each under its own key
C32_Witness ==
    /\ Checking(1) /\ Checking(2)
    /\ LimitOf(1).id = LimitOf(2).id
    /\ LimitOf(1).api_route_id = None
    /\ Unwrap(req[1].route).id # Unwrap(req[2].route).id
    /\ lim[1].key # lim[2].key

----------------------------------------------------------------------------
(* Properties of global whitelist rules *)

\* the active rules of the store scoped to a route, and those scoped to no route
ScopedRules(id) == {w \in store.whitelist_rules : w.is_active /\ w.api_route_id = Some(id)}
GlobalRules == {w \in store.whitelist_rules : w.is_active /\ w.api_route_id = None}

\* request r has been through the whitelist stage
Judged(r) == req[r].whitelist # "none"

\* C33: the rules validated for a route are its own rules and all global rules, by
\* descending priority; a request that matches an active global rule passes the
\* whitelist on every route, and on a route without rules of its own a request that
\* matches none of the existing global rules is denied.
C33_GlobalRulesUnion ==
    \A r \in Reqs :
        Judged(r) =>
            LET q == req[r]
                id == Unwrap(q.route).id
                list == get_whitelist_rules(config, id)
            IN  /\ {list[i] : i \in 1..Len(list)} = ScopedRules(id) \cup GlobalRules
                /\ Len(list) = Cardinality(ScopedRules(id) \cup GlobalRules)
                /\ \A i \in 1..Len(list) : \A j \in i..Len(list) :
                       list[i].priority >= list[j].priority
                /\ (\E g \in GlobalRules : rule_allows(g, q, ClientIp(q)))
                       => q.whitelist = "allowed"
                /\ (/\ ScopedRules(id) = {}
                    /\ GlobalRules # {}
                    /\ \A g \in GlobalRules : ~rule_allows(g, q, ClientIp(q)))
                       => q.whitelist = "denied"

\* a request that matches a global rule and none of the rules of its route has
\* passed the whitelist
C33_Witness ==
    /\ Judged(1)
    /\ req[1].whitelist = "allowed"
    /\ ScopedRules(Unwrap(req[1].route).id) # {}
    /\ \A w \in ScopedRules(Unwrap(req[1].route).id) :
          ~rule_allows(w, req[1], ClientIp(req[1]))
    /\ \E g \in GlobalRules : rule_allows(g, req[1], ClientIp(req[1]))

----------------------------------------------------------------------------
(* Properties of ip rules *)

\* an entry of allowed_ips without its "/n" suffix
WithoutSuffix(entry) ==
    IF Len(entry) >= 2 /\ entry[Len(entry) - 1] = "/"
    THEN SubSeq(entry, 1, Len(entry) - 2)
    ELSE entry

\* the entries of the allowed_ips array of a rule, none if it is missing or no array
EntriesOf(rule) ==
    IF rule.allowed_ips = None THEN {}
    ELSE IF Unwrap(rule.allowed_ips).kind # "array" THEN {}
    ELSE {Unwrap(rule.allowed_ips).items[i] : i \in 1..Len(Unwrap(rule.allowed_ips).items)}

\* C34: a request judged under one ip rule is allowed if and only if its client IP
\* equals an entry of allowed_ips with the "/n" suffix removed; an address inside a
\* listed range other than the written one is not matched, and a rule without an
\* allowed_ips array matches nothing.
C34_IpRuleLiteral ==
    \A r \in Reqs :
        (Judged(r) /\ Cardinality(store.whitelist_rules) = 1) =>
            \A rule \in store.whitelist_rules :
                req[r].whitelist = "allowed"
                    <=> \E entry \in EntriesOf(rule) :
                            <<Unwrap(ClientIp(req[r]))>> = WithoutSuffix(entry)

\* a request from an address inside the listed range, other than the written one,
\* has been denied
C34_Witness ==
    /\ store.whitelist_rules = {RuleCidr}
    /\ req[1].whitelist = "denied"
    /\ req[1].xff = Some(<<"1.1.1.1">>)

----------------------------------------------------------------------------
(* Properties of a load_config run under admin writes *)

\* the states the store goes through when the service and then the route are created
StoreStates ==
    LET st == StoreWith({}, {}, 0)
        withService == [st EXCEPT !.services = @ \cup {NewService}]
    IN  {st, withService, [withService EXCEPT !.routes = @ \cup {NewRoute}]}

\* C35: every published snapshot is the configuration of the store at one instant:
\* its four tables are those of one of the states the store went through, so a
\* route never stands in it without the service created before it.
C35_SnapshotOfOneInstant ==
    \A i \in 2..Len(published) :
        \E st \in StoreStates : published[i] = Snapshot(st, published[i].services.run)

----------------------------------------------------------------------------
(* Properties of several limits on one request *)

\* the key in the KV store of limit number i of request r
StoreKey(r, i) ==
    LET k == RateLimitKey(Unwrap(req[r].route), req[r].limits[i], req[r])
    IN  IF IsSome(req[r].limits[i].burst_size) THEN BucketKey(k) ELSE SlidingKey(k)

\* what a store k holds under a key, if anything
Held(k, key) == IF key \in DOMAIN k THEN Some(k[key]) ELSE None

\* C36: each limit that applies to a request is accounted in its own counter: a step
\* of the check of one limit leaves what the store holds for every other limit of
\* the request as it was.
C36_OwnCounter ==
    [][\A i \in 1..Len(req[1].limits) :
          (req[1].pc = "check" /\ req[1].li # i /\ req'[1] = req[1]) =>
              Held(kv', StoreKey(1, i)) = Held(kv, StoreKey(1, i))]_vars

----------------------------------------------------------------------------
(* Properties of the health map *)

\* C38: the health map holds an entry for a service exactly when a probe of it has
\* completed, the entry is Healthy or Unhealthy as the last completed probe of the
\* service went, never Unknown; is_healthy is false exactly when get_status is
\* Unhealthy; and no step removes an entry or changes one other than by a probe of
\* that service, whatever becomes of the service in the store and the snapshot.
C38_HealthMap ==
    /\ [](/\ DOMAIN service_health = DOMAIN prober.answer
          /\ \A id \in DOMAIN service_health :
                /\ service_health[id] \in {HealthyStatus, UnhealthyStatus}
                /\ service_health[id] = HealthyStatus <=> prober.answer[id]
          /\ \A id \in ServiceIds :
                ~is_healthy(id) <=> get_status(id) = UnhealthyStatus)
    /\ [][\A id \in DOMAIN service_health :
             /\ id \in DOMAIN service_health'
             /\ service_health'[id] # service_health[id] =>
                   id \in prober.todo /\ id \notin prober'.todo]_vars

\* a service that has lost its health check URL in the store and in the snapshot is
\* still recorded Unhealthy
C38_Witness ==
    \E id \in DOMAIN service_health :
        /\ service_health[id] = UnhealthyStatus
        /\ id \in DOMAIN config.services.rows
        /\ config.services.rows[id].health_check_url = None
        /\ prober.pc = "tick"

----------------------------------------------------------------------------
(* Properties of the client IP *)

\* the one ip rule of the store allows the address ip
RuleAdmits(ip) ==
    \E rule \in store.whitelist_rules : \E entry \in EntriesOf(rule) :
        <<ip>> = WithoutSuffix(entry)

\* C39: the ip rule is decided on the first X-Forwarded-For value whenever the
\* header is present, so two requests with the same header value get the same
\* decision whatever their peers, and on the peer address only when the header is
\* absent.
C39_ForwardedForDecides ==
    /\ \A r \in Reqs :
          Judged(r) =>
              (req[r].whitelist = "allowed"
                  <=> IF req[r].xff # None THEN RuleAdmits(Unwrap(req[r].xff)[1])
                      ELSE RuleAdmits(req[r].peer))
    /\ \A r \in Reqs : \A t \in Reqs :
          (Judged(r) /\ Judged(t) /\ req[r].xff # None /\ req[r].xff = req[t].xff)
              => req[r].whitelist = req[t].whitelist

\* two requests forwarded for the same address by different peers, one of the peers
\* being an address the rule would deny, have both been allowed
C39_Witness ==
    /\ Judged(1) /\ Judged(2)
    /\ req[1].xff # None /\ req[1].xff = req[2].xff
    /\ req[1].peer # req[2].peer
    /\ req[1].whitelist = "allowed" /\ req[2].whitelist = "allowed"
    /\ ~RuleAdmits(req[1].peer)

----------------------------------------------------------------------------
(* Properties of the reset time *)

\* what a key of the store holds at time t, its TTL taken into account
LiveAt(key, t) ==
    IF key \in DOMAIN kv /\ (kv[key].exp = None \/ Unwrap(kv[key].exp) > t)
    THEN Some(kv[key]) ELSE None

\* a check of the frame f made at time t on the store as it stands would be admitted
AdmittedAt(f, bucket, t) ==
    IF bucket
    THEN LET h == LiveAt(BucketKey(f.key), t)
             got == IF h = None THEN <<None, None>>
                    ELSE <<Some(Unwrap(h).tokens), Some(Unwrap(h).last_refill)>>
         IN  Refilled(got, t, f.max_requests, f.window_seconds, f.burst_size) > 0
    ELSE LET h == LiveAt(SlidingKey(f.key), t)
         IN  \/ h = None
             \/ ~SlidingExceeded(CountInWindow(kv, [f EXCEPT !.now = t]), f.max_requests)

\* C40: when a check is denied with reset time R, a check of the same limit on the
\* same key made at time R, the store being left as the denial left it, is
\* admitted, for the sliding window and for the token bucket.
C40_ResetSound ==
    \A r \in Reqs :
        (/\ req[r].pc = "check"
         /\ lim[r].pc = "ret"
         /\ Unwrap(lim[r].result).ok
         /\ ~Unwrap(lim[r].result).allowed)
            => AdmittedAt(lim[r], IsSome(LimitOf(r).burst_size), Unwrap(lim[r].result).reset)

====
